---- MODULE Spec2Model ----
(***************************************************************************)
(* Model of the notebook_utils helper library of openvino_notebooks:       *)
(* the pixel-data conversions (normalize_minmax, to_rgb, to_bgr), the file *)
(* helpers (download_file, download_ir_model), the segmentation rendering  *)
(* (segmentation_map_to_image, segmentation_map_to_overlay), Label and     *)
(* SegmentationMap, the checks (check_device, check_openvino_version),     *)
(* the DownloadProgressBar, and the cells of the background-removal        *)
(* notebook that fetch the weights and compose the new image.              *)
(*                                                                         *)
(* Strings are sequences of one-character strings, paths are sequences of  *)
(* names, an image is a shape and a function from pixel positions to       *)
(* channel triples, and a numpy array is a dtype and a sequence of values. *)
(***************************************************************************)
EXTENDS Integers, Sequences, FiniteSets, TLC

VARIABLES
    image_data,           \* the array handed to to_rgb
    bgr_original,         \* the pixel values image_data was created with
    rgb_array,            \* to_rgb(image_data), or NoImage
    bgr_array_converted,  \* to_bgr(rgb_array), or NoImage
    data,                 \* the array handed to normalize_minmax
    normalized,           \* outcome of normalize_minmax(data)
    files,                \* regular files of the filesystem: path -> size
    dirs,                 \* directories of the filesystem: set of paths
    call,                 \* the last call of a file helper, and its outcome
    result,               \* the array handed to the segmentation functions
    colormap,             \* the colormap handed to them
    seg,                  \* the last call of a segmentation function
    available_devices,    \* IECore().available_devices
    installed_version,    \* openvino.inference_engine.get_version()
    displayed,            \* the alerts handed to display(), oldest first
    checked,              \* the last call of a check function
    labels,               \* the list object a SegmentationMap refers to
    constructed,          \* the labels the SegmentationMap was constructed with
    held,                 \* the object the last read of the map returned
    label_op,             \* the last operation on the map, and the count
    source_image,         \* `image` of the background-removal notebook
    resized_result,       \* its segmentation: 0 background, 1 foreground
    bg_removed_result,    \* the image with its background set to 255
    background_image,     \* the resized new background, foreground set to 0
    new_image,            \* background_image + bg_removed_result
    weights_cell,         \* the runs of the notebook cell that downloads the weights
    progress_callback,    \* the DownloadProgressBar of a download_file call
    retrieval             \* the urlretrieve call that reports to it

vars == <<image_data, bgr_original, rgb_array, bgr_array_converted,
          data, normalized, files, dirs, call, result, colormap, seg,
          available_devices, installed_version, displayed, checked,
          labels, constructed, held, label_op,
          source_image, resized_result, bg_removed_result, background_image, new_image,
          weights_cell,
          progress_callback, retrieval>>

imageVars == <<image_data, bgr_original, rgb_array, bgr_array_converted>>
normVars == <<data, normalized>>
fileVars == <<files, dirs, call>>
segVars == <<result, colormap, seg>>
checkVars == <<available_devices, installed_version, displayed, checked>>
labelVars == <<labels, constructed, held, label_op>>
composeVars == <<source_image, resized_result, bg_removed_result, background_image, new_image>>
weightsVars == <<weights_cell>>
progressVars == <<progress_callback, retrieval>>

----------------------------------------------------------------------------
(* Images: to_rgb, to_bgr                                                  *)

MaxH == 2
MaxW == 2

\* Channel triples the test images are painted with: all channels distinct
\* (the test cell's 0, 1, 2), two equal, all equal.
Palette == {<<0, 1, 2>>, <<255, 0, 0>>, <<7, 7, 7>>}

Positions(h, w) == (1..h) \X (1..w)

Images ==
    UNION {{[shape |-> <<h, w, 3>>, px |-> p] : p \in [Positions(h, w) -> Palette]}
           : <<h, w>> \in (1..MaxH) \X (1..MaxW)}

NoImage == [shape |-> <<0, 0, 0>>, px |-> <<>>]

\* cv2.cvtColor with COLOR_BGR2RGB or COLOR_RGB2BGR: a new array of the same
\* shape whose channels 0 and 2 are exchanged (channels are 1..3 here).
CvtColorSwapRB(src) ==
    [shape |-> src.shape,
     px |-> [pos \in DOMAIN src.px |->
                <<src.px[pos][3], src.px[pos][2], src.px[pos][1]>>]]

CvtColorKeepsOrder(src) == src

CvtColorRotates(src) ==
    [shape |-> src.shape,
     px |-> [pos \in DOMAIN src.px |->
                <<src.px[pos][3], src.px[pos][1], src.px[pos][2]>>]]

to_rgb(x) == CvtColorSwapRB(x)

to_bgr(x) == CvtColorSwapRB(x)

\* rgb_array = to_rgb(bgr_array): cvtColor allocates its result, the argument
\* is only read.
CallToRgb ==
    /\ rgb_array = NoImage
    /\ rgb_array' = to_rgb(image_data)
    /\ UNCHANGED <<image_data, bgr_original, bgr_array_converted>>

\* bgr_array_converted = to_bgr(rgb_array)
CallToBgr ==
    /\ rgb_array # NoImage
    /\ bgr_array_converted = NoImage
    /\ bgr_array_converted' = to_bgr(rgb_array)
    /\ UNCHANGED <<image_data, bgr_original, rgb_array>>

----------------------------------------------------------------------------
(* Arrays: normalize_minmax                                                *)

MaxLen == 3

Int8 == [kind |-> "int", bits |-> 8]
UInt8 == [kind |-> "uint", bits |-> 8]
Float64 == [kind |-> "float", bits |-> 64]

\* Element values the arrays are filled with, per dtype: the ends of the
\* dtype's range and values around zero.
SampleValues(dtype) ==
    IF dtype = Int8 THEN {-128, -1, 0, 1, 127}
    ELSE IF dtype = UInt8 THEN {0, 1, 128, 255}
    ELSE {-3, 0, 1, 2}

Arrays ==
    UNION {{[dtype |-> t, values |-> v] :
               v \in UNION {[1..n -> SampleValues(t)] : n \in 0..MaxLen}}
           : t \in {Int8, UInt8, Float64}}

Pow2(n) == IF n = 8 THEN 256 ELSE 2 ^ n

\* The value an arithmetic result takes in a dtype: fixed-width integers
\* wrap around modulo 2^bits, floats (here: exact numbers) do not.
Wrap(dtype, x) ==
    IF dtype.kind = "uint" THEN x % Pow2(dtype.bits)
    ELSE IF dtype.kind = "int"
         THEN ((x + Pow2(dtype.bits - 1)) % Pow2(dtype.bits)) - Pow2(dtype.bits - 1)
    ELSE x

SeqMax(v) == CHOOSE m \in {v[i] : i \in DOMAIN v} : \A i \in DOMAIN v : v[i] <= m
SeqMin(v) == CHOOSE m \in {v[i] : i \in DOMAIN v} : \A i \in DOMAIN v : m <= v[i]

NoValues == <<>>

AllEqualGuardOnZero(d) == SeqMax(d.values) = 0

\* data.max() == data.min()
AllEqualGuard(d) == SeqMax(d.values) = SeqMin(d.values)

\* (data - data.min()) / (data.max() - data.min()): both differences are
\* computed in the dtype of data, the quotient is a float, kept here as the
\* exact fraction <<numerator, denominator>>.
MinMaxQuotients(d) ==
    LET mn == SeqMin(d.values)
        mx == SeqMax(d.values)
        den == Wrap(d.dtype, mx - mn)
    IN  [i \in DOMAIN d.values |-> <<Wrap(d.dtype, d.values[i] - mn), den>>]

\* The outcome of normalize_minmax(data): a ValueError or the quotients.
\* max() of an empty array raises ValueError as well.
normalize_minmax(d) ==
    IF d.values = <<>> THEN [raised |-> "ValueError", values |-> NoValues]
    ELSE IF AllEqualGuard(d) THEN [raised |-> "ValueError", values |-> NoValues]
    ELSE [raised |-> "", values |-> MinMaxQuotients(d)]

NotCalled == [raised |-> "not called", values |-> NoValues]

CallNormalize ==
    /\ normalized = NotCalled
    /\ normalized' = normalize_minmax(data)
    /\ UNCHANGED data

----------------------------------------------------------------------------
(* Strings and paths: pathlib.Path, urllib.parse.urlparse                  *)

None == <<"<None>">>
NoPath == <<None>>

\* s.split(sep): the pieces of s between the separators, empty ones included.
SplitOn(s, sep) ==
    LET F[i \in 0..Len(s)] ==
            IF i = 0 THEN << <<>> >>
            ELSE IF s[i] = sep THEN Append(F[i - 1], <<>>)
            ELSE [F[i - 1] EXCEPT ![Len(F[i - 1])] = Append(@, s[i])]
    IN  F[Len(s)]

LeadingSlashes(s) ==
    LET F[i \in 0..Len(s)] ==
            IF i = 0 THEN 0
            ELSE IF F[i - 1] = i - 1 /\ s[i] = "/" THEN i ELSE F[i - 1]
    IN  F[Len(s)]

IsPathComponent(c) == c # <<>> /\ c # <<".">>

\* pathlib.Path(s) on POSIX: the root ("" when relative, "//" for exactly two
\* leading slashes, "/" otherwise) and the components, where empty
\* components and "." are dropped and ".." is kept.
PathOf(s) ==
    [root |-> IF LeadingSlashes(s) = 0 THEN ""
              ELSE IF LeadingSlashes(s) = 2 THEN "//" ELSE "/",
     comps |-> SelectSeq(SplitOn(s, "/"), IsPathComponent)]

\* len(path.parts): the root, when there is one, is a part.
PartsLen(p) == (IF p.root = "" THEN 0 ELSE 1) + Len(p.comps)

\* path.name: the last component, "" when there is none.
PathName(p) == IF p.comps = <<>> THEN <<>> ELSE p.comps[Len(p.comps)]

JoinPathDropsDirectory(d, f) == f

\* d / f: an absolute f replaces d.
JoinPath(d, f) ==
    IF f.root # "" THEN f ELSE [root |-> d.root, comps |-> d.comps \o f.comps]

Root == <<>>
Cwd == << <<"w">> >>

\* The place in the filesystem a path names, as the sequence of names from
\* the root: relative paths start at the working directory, ".." steps up
\* (and stays at the root). This is also what path.resolve() returns.
Locate(p) ==
    LET start == IF p.root = "" THEN Cwd ELSE Root
        all == start \o p.comps
        F[i \in 0..Len(all)] ==
            IF i = 0 THEN <<>>
            ELSE IF all[i] = <<".", ".">>
                 THEN (IF F[i - 1] = <<>> THEN <<>>
                       ELSE SubSeq(F[i - 1], 1, Len(F[i - 1]) - 1))
            ELSE Append(F[i - 1], all[i])
    IN  F[Len(all)]

\* urllib.parse.urlparse(url).path: a URL is written here with the single
\* character "h" for its scheme and host; the path is what follows, up to
\* the query ("?") or the fragment ("#").
UrlPath(url) ==
    LET stops == {i \in 2..Len(url) : url[i] \in {"?", "#"}}
        end == IF stops = {} THEN Len(url)
               ELSE (CHOOSE i \in stops : \A j \in stops : i <= j) - 1
    IN  SubSeq(url, 2, end)

----------------------------------------------------------------------------
(* The filesystem and the remote host                                      *)

MaxSize == 2

NoCL == -1

\* The entries of the directory tree: every prefix of a path.
Prefixes(loc) == {SubSeq(loc, 1, k) : k \in 0..Len(loc)}

\* path.exists()
Exists(fs, loc) == loc \in fs.dirs \/ loc \in DOMAIN fs.files

\* A file's size after it was written.
WriteFile(fs, loc, size) ==
    [fs EXCEPT !.files = [q \in DOMAIN fs.files \cup {loc} |->
                             IF q = loc THEN size ELSE fs.files[q]]]

NoExc == [type |-> "", code |-> 0, msg |-> ""]
Exc(type) == [type |-> type, code |-> 0, msg |-> ""]

NotFound == [code |-> 404, msg |-> "Not Found"]
HttpErrors == {NotFound, [code |-> 503, msg |-> "Service Unavailable"]}

\* What a request to the remote host can bring: an HTTP error response, a
\* failure below HTTP (no host, no connection), or a response with or
\* without a Content-Length header (cl) and with or without a filename
\* announced in Content-Disposition (disp).
HttpErrorResponse(e) ==
    [kind |-> "http_error", code |-> e.code, msg |-> e.msg, cl |-> NoCL, disp |-> None]
NoConnection ==
    [kind |-> "url_error", code |-> 0, msg |-> "", cl |-> NoCL, disp |-> None]
OkResponse(cl, disp) ==
    [kind |-> "ok", code |-> 200, msg |-> "OK", cl |-> cl, disp |-> disp]
NoRequest ==
    [kind |-> "none", code |-> 0, msg |-> "", cl |-> NoCL, disp |-> None]

\* What the transfer of the body by urlretrieve can bring: its own request
\* fails (http_error, url_error), the transfer breaks off after n bytes
\* were written (cut), or the whole body of n bytes is written (ok).
RetrHttpError(e) == [kind |-> "http_error", code |-> e.code, msg |-> e.msg, n |-> 0]
RetrNoConnection == [kind |-> "url_error", code |-> 0, msg |-> "", n |-> 0]
RetrCut(n) == [kind |-> "cut", code |-> 200, msg |-> "OK", n |-> n]
RetrOk(n) == [kind |-> "ok", code |-> 200, msg |-> "OK", n |-> n]
NoRetrieval == [kind |-> "none", code |-> 0, msg |-> "", n |-> 0]

----------------------------------------------------------------------------
(* download_file                                                           *)

OpenFailureWithoutStatus(resp) ==
    [type |-> "Exception", code |-> 0, msg |-> resp.msg]

\* except urllib.error.HTTPError as e: raise Exception(f"... {e.code} {e.msg}")
OpenFailure(resp) ==
    [type |-> "Exception", code |-> resp.code, msg |-> resp.msg]

\* The HTTPError urlretrieve raises passes through download_file unchanged.
RetrieveFailure(retr) ==
    [type |-> "HTTPError", code |-> retr.code, msg |-> retr.msg]

UrlFilenameIgnoresDisposition(resp, url) == PathName(PathOf(UrlPath(url)))

\* urlobject.info().get_filename() or Path(urllib.parse.urlparse(url).path).name
UrlFilename(resp, url) ==
    IF resp.disp # None /\ resp.disp # <<>> THEN resp.disp
    ELSE PathName(PathOf(UrlPath(url)))

MalformedIfSeparator(p) == p.root # "" /\ p.comps # <<>>

\* len(filename.parts) > 1
FilenameIsMalformed(p) == PartsLen(p) > 1

\* directory.mkdir(parents=True, exist_ok=True): the directory and its
\* missing parents are created; a regular file in the way raises.
MkdirParents(fs, loc) ==
    IF loc \in DOMAIN fs.files
    THEN [fs |-> fs, exc |-> Exc("FileExistsError")]
    ELSE IF Prefixes(loc) \cap DOMAIN fs.files # {}
    THEN [fs |-> fs, exc |-> Exc("NotADirectoryError")]
    ELSE [fs |-> [fs EXCEPT !.dirs = fs.dirs \cup Prefixes(loc)], exc |-> NoExc]

MkdirBeforeNameCheck(fs, name, directory) ==
    LET made == IF directory = None THEN [fs |-> fs, exc |-> NoExc]
                ELSE MkdirParents(fs, Locate(PathOf(directory)))
    IN  IF made.exc = NoExc /\ FilenameIsMalformed(name)
        THEN [fs |-> made.fs, exc |-> Exc("ValueError")]
        ELSE made

\* Lines 127-138: the filename is checked, and only then is the directory
\* created.
PrepareTarget(fs, name, directory) ==
    IF FilenameIsMalformed(name) THEN [fs |-> fs, exc |-> Exc("ValueError")]
    ELSE IF directory = None THEN [fs |-> fs, exc |-> NoExc]
    ELSE MkdirParents(fs, Locate(PathOf(directory)))

\* int(urlobject.info().get("Content-Length", 0))
UrlObjectSize(resp) == IF resp.cl = NoCL THEN 0 ELSE resp.cl

\* os.stat(filename).st_size: a directory's size is what the filesystem
\* says it is (dir_size).
StatSize(fs, loc, dir_size) ==
    IF loc \in DOMAIN fs.files THEN fs.files[loc] ELSE dir_size

NeedsDownloadIfShorter(fs, loc, dir_size, urlobject_size) ==
    \/ ~Exists(fs, loc)
    \/ StatSize(fs, loc, dir_size) < urlobject_size

NeedsDownloadIfMissing(fs, loc, dir_size, urlobject_size) == ~Exists(fs, loc)

NeedsDownloadAlways(fs, loc, dir_size, urlobject_size) == TRUE

\* not filename.exists() or (os.stat(filename).st_size != urlobject_size)
NeedsDownload(fs, loc, dir_size, urlobject_size) ==
    \/ ~Exists(fs, loc)
    \/ StatSize(fs, loc, dir_size) # urlobject_size

UrlRetrieveHidesFailure(fs, loc, retr) ==
    IF loc \in fs.dirs THEN [fs |-> fs, exc |-> Exc("IsADirectoryError")]
    ELSE [fs |-> WriteFile(fs, loc, retr.n), exc |-> NoExc]

\* urllib.request.urlretrieve(url, filename, ...): the URL is requested
\* again, then the file is opened for writing (which a directory refuses)
\* and the body is copied into it; a transfer that breaks off leaves the
\* bytes written so far and raises.
UrlRetrieve(fs, loc, retr) ==
    IF retr.kind = "http_error" THEN [fs |-> fs, exc |-> RetrieveFailure(retr)]
    ELSE IF retr.kind = "url_error" THEN [fs |-> fs, exc |-> Exc("URLError")]
    ELSE IF loc \in fs.dirs THEN [fs |-> fs, exc |-> Exc("IsADirectoryError")]
    ELSE IF retr.kind = "cut"
    THEN [fs |-> WriteFile(fs, loc, retr.n), exc |-> Exc("ContentTooShortError")]
    ELSE [fs |-> WriteFile(fs, loc, retr.n), exc |-> NoExc]

OutcomeWithoutPathWhenQuiet(fs, ret, exc, retrieved, printed, target, size) ==
    [fs |-> fs, ret |-> IF retrieved = 0 /\ ~printed THEN NoPath ELSE ret,
     exc |-> exc, opened |-> 1, retrieved |-> retrieved,
     printed |-> printed, target |-> target, urlobject_size |-> size]

Outcome(fs, ret, exc, retrieved, printed, target, size) ==
    [fs |-> fs, ret |-> ret, exc |-> exc, opened |-> 1, retrieved |-> retrieved,
     printed |-> printed, target |-> target, urlobject_size |-> size]

\* download_file(url, filename, directory, show_progress, silent) run on the
\* filesystem fs, where env says what the remote host and the filesystem
\* answer: env.open to urlopen, env.retr to urlretrieve, env.dir_size to
\* os.stat of a directory.
download_file(fs, url, filename, directory, show_progress, silent, env) ==
    IF env.open.kind = "http_error"
    THEN Outcome(fs, NoPath, OpenFailure(env.open), 0, FALSE, NoPath, NoCL)
    ELSE IF env.open.kind = "url_error"
    THEN Outcome(fs, NoPath, Exc("URLError"), 0, FALSE, NoPath, NoCL)
    ELSE
    LET name == PathOf(IF filename = None THEN UrlFilename(env.open, url)
                       ELSE filename)
    IN
    LET made == PrepareTarget(fs, name, directory)
        path == IF directory = None THEN name
                ELSE JoinPath(PathOf(directory), name)
        loc == Locate(path)
        urlobject_size == UrlObjectSize(env.open)
    IN
    IF made.exc # NoExc
    THEN Outcome(made.fs, NoPath, made.exc, 0, FALSE, NoPath, NoCL)
    ELSE IF NeedsDownload(made.fs, loc, env.dir_size, urlobject_size)
    THEN LET got == UrlRetrieve(made.fs, loc, env.retr)
         IN  Outcome(got.fs, IF got.exc = NoExc THEN loc ELSE NoPath, got.exc,
                     1, FALSE, loc, urlobject_size)
    ELSE Outcome(made.fs, loc, NoExc, 0, ~silent, loc, urlobject_size)

----------------------------------------------------------------------------
(* download_ir_model                                                       *)

BinUrlCutsThree(model_xml_url) ==
    SubSeq(model_xml_url, 1, Len(model_xml_url) - 3) \o <<".", "b", "i", "n">>

\* model_xml_url[:-4] + ".bin"
BinUrl(model_xml_url) ==
    SubSeq(model_xml_url, 1, Len(model_xml_url) - 4) \o <<".", "b", "i", "n">>

\* The outcome that stands for a download that was never started.
NotRun == [fs |-> [files |-> <<>>, dirs |-> {}], ret |-> NoPath, exc |-> NoExc,
           opened |-> 0, retrieved |-> 0, printed |-> FALSE, target |-> NoPath,
           urlobject_size |-> NoCL]

Only(S) == CHOOSE r \in S : TRUE

DownloadIrModelFetchesBoth(fs, model_xml_url, destination_folder, env_xml, env_bin) ==
    Only({Only({[fs |-> bin.fs,
                 ret |-> IF xml.exc = NoExc /\ bin.exc = NoExc THEN xml.ret ELSE NoPath,
                 exc |-> IF xml.exc # NoExc THEN xml.exc ELSE bin.exc,
                 bin_url |-> BinUrl(model_xml_url), xml |-> xml, bin |-> bin]
                : bin \in {download_file(xml.fs, BinUrl(model_xml_url), None,
                                         destination_folder, TRUE, FALSE, env_bin)}})
          : xml \in {download_file(fs, model_xml_url, None, destination_folder,
                                   FALSE, FALSE, env_xml)}})

\* download_ir_model(model_xml_url, destination_folder): the xml file is
\* downloaded without a progress bar, then the bin file; an exception of
\* either download ends the call.
download_ir_model(fs, model_xml_url, destination_folder, env_xml, env_bin) ==
    LET model_bin_url == BinUrl(model_xml_url)
        Second(xml, bin) ==
            IF bin.exc # NoExc
            THEN [fs |-> bin.fs, ret |-> NoPath, exc |-> bin.exc,
                  bin_url |-> model_bin_url, xml |-> xml, bin |-> bin]
            ELSE [fs |-> bin.fs, ret |-> xml.ret, exc |-> NoExc,
                  bin_url |-> model_bin_url, xml |-> xml, bin |-> bin]
        First(xml) ==
            IF xml.exc # NoExc
            THEN [fs |-> xml.fs, ret |-> NoPath, exc |-> xml.exc,
                  bin_url |-> model_bin_url, xml |-> xml, bin |-> NotRun]
            ELSE Only({Second(xml, bin) :
                        bin \in {download_file(xml.fs, model_bin_url, None,
                                               destination_folder, TRUE, FALSE,
                                               env_bin)}})
    IN  Only({First(xml) :
                xml \in {download_file(fs, model_xml_url, None, destination_folder,
                                       FALSE, FALSE, env_xml)}})

----------------------------------------------------------------------------
(* Inputs and calls                                                        *)

MaxNameLen == 3
MaxFiles == 2

Chars == {"a", "/", "."}

\* Every string of at most MaxNameLen characters over Chars.
AllNames == UNION {[1..n -> Chars] : n \in 0..MaxNameLen}

XmlUrl == <<"h", "/", "m", ".", "x", "m", "l">>
XmlUrlWithQuery == <<"h", "/", "m", ".", "x", "m", "l", "?", "r">>

\* The answers the remote host can give to urlopen; a filename is only
\* announced where the call reads it.
Opens(filename) ==
    {HttpErrorResponse(e) : e \in HttpErrors} \cup {NoConnection}
    \cup {OkResponse(cl, disp) :
            cl \in {NoCL} \cup (0..MaxSize),
            disp \in IF filename = None THEN {None, <<"a">>, <<"a", "/", "a">>}
                                           ELSE {None}}

Retrievals ==
    {RetrHttpError(e) : e \in HttpErrors} \cup {RetrNoConnection}
    \cup {RetrCut(n) : n \in 0..(MaxSize - 1)}
    \cup {RetrOk(n) : n \in 0..MaxSize}

\* Only the answers a call asks for are drawn: a directory size when the
\* target is a directory, a transfer when urlretrieve runs.
DirSizes(fs, probe) ==
    IF probe.target # NoPath /\ probe.target \in probe.fs.dirs
    THEN 0..MaxSize ELSE {0}

Transfers(probe, retrs) == IF probe.retrieved = 1 THEN retrs ELSE {NoRetrieval}

Env(open, retr, dir_size) == [open |-> open, retr |-> retr, dir_size |-> dir_size]

NoCall == [op |-> "none"]

\* A notebook cell calls download_file.
DownloadFileCall(urls, names, directories, opens, retrs) ==
    /\ call.op = "none"
    /\ \E url \in urls, filename \in names, directory \in directories :
       \E open \in opens \cap Opens(filename) :
        \E fs \in {[files |-> files, dirs |-> dirs]} :
        \E probe \in {download_file(fs, url, filename, directory, TRUE, TRUE,
                                     Env(open, NoRetrieval, 0))} :
            \E dir_size \in DirSizes(fs, probe) :
            \E probe2 \in {download_file(fs, url, filename, directory, TRUE, TRUE,
                                        Env(open, NoRetrieval, dir_size))} :
            \E retr \in Transfers(probe2, retrs) :
            \E show_progress \in BOOLEAN, silent \in BOOLEAN :
            \E out \in {download_file(fs, url, filename, directory, show_progress,
                                       silent, Env(open, retr, dir_size))} :
                /\ files' = out.fs.files
                /\ dirs' = out.fs.dirs
                /\ call' = [op |-> "download_file", url |-> url,
                            filename |-> filename, directory |-> directory,
                            show_progress |-> show_progress, silent |-> silent,
                            open |-> open, retr |-> retr, dir_size |-> dir_size,
                            ret |-> out.ret, exc |-> out.exc,
                            opened |-> out.opened, retrieved |-> out.retrieved,
                            printed |-> out.printed, target |-> out.target,
                            urlobject_size |-> out.urlobject_size,
                            before |-> fs, previous |-> NoCall]

\* The cell is run again: download_file is called with the arguments of the
\* call before, on the filesystem that call left, and the remote host
\* answers anew.
DownloadFileAgain(opens, retrs) ==
    /\ call.op = "download_file"
    /\ call.previous = NoCall
    /\ \E open \in opens \cap Opens(call.filename) :
        \E fs \in {[files |-> files, dirs |-> dirs]} :
        \E probe \in {download_file(fs, call.url, call.filename, call.directory,
                                     TRUE, TRUE, Env(open, NoRetrieval, 0))} :
            \E dir_size \in DirSizes(fs, probe) :
            \E probe2 \in {download_file(fs, call.url, call.filename, call.directory,
                                          TRUE, TRUE, Env(open, NoRetrieval, dir_size))} :
            \E retr \in Transfers(probe2, retrs) :
            \E out \in {download_file(fs, call.url, call.filename, call.directory,
                                       call.show_progress, call.silent,
                                       Env(open, retr, dir_size))} :
                /\ files' = out.fs.files
                /\ dirs' = out.fs.dirs
                /\ call' = [call EXCEPT
                                !.open = open, !.retr = retr, !.dir_size = dir_size,
                                !.ret = out.ret, !.exc = out.exc,
                                !.opened = out.opened, !.retrieved = out.retrieved,
                                !.printed = out.printed, !.target = out.target,
                                !.urlobject_size = out.urlobject_size,
                                !.before = fs, !.previous = call]

\* A notebook cell calls download_ir_model. The answers to the second
\* download are drawn only when the first one returns.
DownloadIrModelCall(urls, directories, opens, retrs) ==
    /\ call.op = "none"
    /\ \E url \in urls, directory \in directories :
       \E open1 \in opens :
        \E fs \in {[files |-> files, dirs |-> dirs]} :
        \E probe1 \in {download_file(fs, url, None, directory, FALSE, FALSE,
                                      Env(open1, NoRetrieval, 0))} :
            \E retr1 \in Transfers(probe1, retrs) :
            \E first \in {download_file(fs, url, None, directory, FALSE, FALSE,
                                         Env(open1, retr1, 0))} :
            \E open2 \in IF first.exc = NoExc THEN opens ELSE {NoRequest} :
            \E probe2 \in {download_file(first.fs, BinUrl(url), None, directory,
                                          TRUE, FALSE, Env(open2, NoRetrieval, 0))} :
            \E retr2 \in IF first.exc = NoExc THEN Transfers(probe2, retrs)
                         ELSE {NoRetrieval} :
            \E out \in {download_ir_model(fs, url, directory,
                             Env(open1, retr1, 0), Env(open2, retr2, 0))} :
                /\ files' = out.fs.files
                /\ dirs' = out.fs.dirs
                /\ call' = [op |-> "download_ir_model", url |-> url,
                            directory |-> directory, open1 |-> open1,
                            open2 |-> open2, retr1 |-> retr1, retr2 |-> retr2,
                            ret |-> out.ret, exc |-> out.exc,
                            bin_url |-> out.bin_url, xml |-> out.xml,
                            bin |-> out.bin, before |-> fs]

\* The filesystems a call can find: the directories ds, and at most
\* MaxFiles regular files among the places cands, each in a directory.
Filesystems(ds, cands) ==
    UNION {{[files |-> f, dirs |-> ds] : f \in [S -> 0..MaxSize]} :
           S \in {T \in SUBSET cands :
                    /\ Cardinality(T) <= MaxFiles
                    /\ \A loc \in T : /\ loc \notin ds
                                      /\ loc # <<>>
                                      /\ SubSeq(loc, 1, Len(loc) - 1) \in ds}}

NoArray == [dtype |-> UInt8, values |-> NoValues]

NoFiles == <<>>

----------------------------------------------------------------------------
(* Segmentation: segmentation_map_to_image, segmentation_map_to_overlay    *)

MaxDim == 2
MaxCells == 4
MaxRows == 2

RECURSIVE Product(_)
Product(shape) == IF shape = <<>> THEN 1 ELSE Head(shape) * Product(Tail(shape))

\* Shapes of one to four axes; a fourth axis holds at least two channels.
ResultShapes ==
    {shape \in UNION {[1..n -> 1..MaxDim] : n \in 1..4} :
        /\ Product(shape) <= MaxCells
        /\ Len(shape) = 4 => shape[4] >= 2}

\* Class indices, and a value that astype(np.uint8) changes.
PixelValues == {0, 1, 2, 256}

\* A numpy array: its shape and its elements in row-major order.
Results ==
    UNION {{[shape |-> shape, flat |-> f] : f \in [1..Product(shape) -> PixelValues]}
           : shape \in ResultShapes}

NoResult == [shape |-> <<0>>, flat |-> <<>>]

Colors == {<<255, 255, 255>>, <<0, 0, 0>>, <<128, 64, 128>>}

\* colormap: one RGB row per class.
Colormaps == UNION {[1..n -> Colors] : n \in 0..MaxRows}

\* np.unique(result)
Unique(a) == {a.flat[i] : i \in DOMAIN a.flat}

\* len(result.shape) != 2 and result.shape[0] != 1
ShapeIsUnexpected(shape) == Len(shape) # 2 /\ shape[1] # 1

\* len(np.unique(result)) > colormap.shape[0]
TooManyClasses(a, cmap) == Cardinality(Unique(a)) > Len(cmap)

\* raise ValueError(f"Expected max {colormap[0]} classes ..."): the message
\* is built first, and colormap[0] of a colormap without rows raises
\* IndexError.
TooManyClassesFailure(cmap) ==
    IF Len(cmap) = 0 THEN Exc("IndexError") ELSE Exc("ValueError")

\* result.squeeze(0)
Squeeze0(a) == [shape |-> Tail(a.shape), flat |-> a.flat]

\* result.astype(np.uint8)
AsTypeUint8(a) == [shape |-> a.shape, flat |-> [i \in DOMAIN a.flat |-> a.flat[i] % 256]]

\* result == label_index, for a two-dimensional result: the positions that
\* are 255 in label_index_map.
LabelIndexMap(a, label_index) ==
    {pos \in Positions(a.shape[1], a.shape[2]) :
        a.flat[(pos[1] - 1) * a.shape[2] + pos[2]] = label_index}

Neighbours4(pos) ==
    {<<pos[1] - 1, pos[2]>>, <<pos[1] + 1, pos[2]>>,
     <<pos[1], pos[2] - 1>>, <<pos[1], pos[2] + 1>>}

\* The positions outside `region` that are joined to `seen` by steps along
\* rows and columns outside `region`.
RECURSIVE Outside(_, _, _)
Outside(seen, region, all) ==
    LET more == {pos \in all \ (region \cup seen) :
                    \E q \in seen : pos \in Neighbours4(q)}
    IN  IF more = {} THEN seen ELSE Outside(seen \cup more, region, all)

\* drawContours that leaves every hole unpainted, whatever the contour mode.
ContoursKeepHoles(region, h, w, remove_holes) == region

\* cv2.findContours(label_index_map, contour_mode, ...) followed by
\* cv2.drawContours(..., contourIdx=-1, thickness=cv2.FILLED): the positions
\* painted. With RETR_TREE the contours of holes are drawn with the outer
\* ones and leave the holes unpainted; with RETR_EXTERNAL only the outer
\* contours are drawn, and what they enclose is painted.
FilledContours(region, h, w, remove_holes) ==
    IF ~remove_holes THEN region
    ELSE LET all == Positions(h, w)
             rim == {pos \in all \ region :
                        pos[1] \in {1, h} \/ pos[2] \in {1, w}}
         IN  all \ Outside(rim, region, all)

\* for label_index, color in enumerate(colormap): ... drawContours(mask, ...)
RECURSIVE DrawLabels(_, _, _, _, _)
DrawLabels(px, a, cmap, row, remove_holes) ==
    IF row > Len(cmap) THEN px
    ELSE LET filled == FilledContours(LabelIndexMap(a, row - 1),
                                      a.shape[1], a.shape[2], remove_holes)
         IN  DrawLabels([pos \in DOMAIN px |->
                            IF pos \in filled THEN cmap[row] ELSE px[pos]],
                        a, cmap, row + 1, remove_holes)

Raises(exc) == [exc |-> exc, image |-> NoImage]

\* segmentation_map_to_image(result, colormap, remove_holes)
segmentation_map_to_image(a, cmap, remove_holes) ==
    IF ShapeIsUnexpected(a.shape) THEN Raises(Exc("ValueError"))
    ELSE IF TooManyClasses(a, cmap) THEN Raises(TooManyClassesFailure(cmap))
    ELSE
    LET r == AsTypeUint8(IF a.shape[1] = 1 THEN Squeeze0(a) ELSE a)
    IN
    \* np.zeros((result.shape[0], result.shape[1], 3), dtype=np.uint8)
    IF Len(r.shape) < 2 THEN Raises(Exc("IndexError"))
    \* cv2.findContours accepts single-channel images only
    ELSE IF Len(r.shape) > 2 /\ Len(cmap) > 0 THEN Raises(Exc("cv2.error"))
    ELSE [exc |-> NoExc,
          image |-> [shape |-> <<r.shape[1], r.shape[2], 3>>,
                     px |-> DrawLabels([pos \in Positions(r.shape[1], r.shape[2])
                                           |-> <<0, 0, 0>>],
                                       r, cmap, 1, remove_holes)]]

\* np.repeat(np.expand_dims(image, -1), 3, 2) of a two-dimensional image
Repeat3(image) ==
    [shape |-> image.shape \o <<3>>,
     px |-> [pos \in DOMAIN image.px |->
                <<image.px[pos], image.px[pos], image.px[pos]>>]]

\* cv2.addWeighted(mask, alpha, image, 1 - alpha, 0), for alpha 0 or 1;
\* arrays of different sizes are refused.
AddWeighted(mask, alpha, image) ==
    IF mask.shape # image.shape THEN Raises(Exc("cv2.error"))
    ELSE [exc |-> NoExc,
          image |-> [shape |-> mask.shape,
                     px |-> [pos \in DOMAIN mask.px |->
                                [c \in 1..3 |-> mask.px[pos][c] * alpha
                                                + image.px[pos][c] * (1 - alpha)]]]]

\* segmentation_map_to_overlay(image, result, alpha, colormap, remove_holes)
segmentation_map_to_overlay(image, a, alpha, cmap, remove_holes) ==
    LET image3 == IF Len(image.shape) = 2 THEN Repeat3(image) ELSE image
    IN  Only({IF mask.exc # NoExc THEN mask
              ELSE AddWeighted(mask.image, alpha, image3)
              : mask \in {segmentation_map_to_image(a, cmap, remove_holes)}})

\* Source images for the overlay: grey or three-channel, one shade each.
OverlayImages ==
    UNION {{[shape |-> <<h, w>>, px |-> [pos \in Positions(h, w) |-> 7]],
            [shape |-> <<h, w, 3>>, px |-> [pos \in Positions(h, w) |-> <<7, 7, 7>>]]}
           : <<h, w>> \in (1..MaxDim) \X (1..MaxDim)}

\* A notebook cell calls segmentation_map_to_image(result, colormap, ...).
CallSegmentationMapToImage ==
    /\ seg.op = "none"
    /\ \E remove_holes \in BOOLEAN :
       \E out \in {segmentation_map_to_image(result, colormap, remove_holes)} :
            seg' = [op |-> "segmentation_map_to_image",
                    remove_holes |-> remove_holes,
                    exc |-> out.exc, image |-> out.image]
    /\ UNCHANGED <<result, colormap>>

\* A notebook cell calls segmentation_map_to_overlay(image, result, ...).
CallSegmentationMapToOverlay ==
    /\ seg.op = "none"
    /\ \E remove_holes \in BOOLEAN, alpha \in {0, 1}, image \in OverlayImages :
       \E out \in {segmentation_map_to_overlay(image, result, alpha, colormap,
                                                remove_holes)} :
            seg' = [op |-> "segmentation_map_to_overlay",
                    remove_holes |-> remove_holes, alpha |-> alpha,
                    source |-> image, exc |-> out.exc, image |-> out.image]
    /\ UNCHANGED <<result, colormap>>

----------------------------------------------------------------------------
(* Checks and alerts: check_device, check_openvino_version                 *)

MaxDevices == 2
MaxVersionLen == 4

\* ie.available_devices: a list of device names.
DeviceLists == UNION {[1..n -> {"CPU", "GPU"}] : n \in 0..MaxDevices}

\* Version strings, as sequences of characters.
InstalledVersions ==
    {<<"2", "1", ".", "4", ".", "0">>, <<"2", "2", ".", "1", "-", "4">>}

Versions == UNION {[1..n -> {"1", "2", "4", "."}] : n \in 1..MaxVersionLen}

\* NotebookAlert.__init__: the fields are set and show_message() displays
\* the alert; the exception object is created, never raised.
NotebookAlert(message, alert_class, shown) ==
    Append(shown, [alert_class |-> alert_class, message |-> message])

\* DeviceNotFoundAlert.__init__: the message names the device and lists
\* the available ones (one device: its name; otherwise: the names joined).
DeviceNotFoundAlert(device, devices, shown) ==
    NotebookAlert([requires |-> device,
                   available |-> IF Len(devices) = 1 THEN <<devices[1]>> ELSE devices],
                  "warning", shown)

IsFirstDevice(device, devices) == devices # <<>> /\ devices[1] = device

\* device in ie.available_devices
IsAvailable(device, devices) == \E i \in DOMAIN devices : devices[i] = device

\* check_device(device)
check_device(device, devices, shown) ==
    IF ~IsAvailable(device, devices)
    THEN [ret |-> FALSE, exc |-> NoExc,
          displayed |-> DeviceNotFoundAlert(device, devices, shown)]
    ELSE [ret |-> TRUE, exc |-> NoExc, displayed |-> shown]

\* version in installed_version, for strings: version occurs as a substring.
Occurs(version, installed) ==
    \E i \in 0..(Len(installed) - Len(version)) :
        SubSeq(installed, i + 1, i + Len(version)) = version

\* check_openvino_version(version)
check_openvino_version(version, installed, shown) ==
    IF ~Occurs(version, installed)
    THEN [ret |-> FALSE, exc |-> NoExc,
          displayed |-> NotebookAlert([requires |-> version, found |-> installed],
                                      "danger", shown)]
    ELSE [ret |-> TRUE, exc |-> NoExc, displayed |-> shown]

\* A notebook cell calls check_device.
CallCheckDevice ==
    /\ checked.op = "none"
    /\ \E device \in {"CPU", "GPU", "HELLOWORLD"} :
       \E out \in {check_device(device, available_devices, displayed)} :
            /\ displayed' = out.displayed
            /\ checked' = [op |-> "check_device", device |-> device,
                           ret |-> out.ret, exc |-> out.exc, before |-> displayed]
    /\ UNCHANGED <<available_devices, installed_version>>

\* A notebook cell calls check_openvino_version.
CallCheckOpenvinoVersion ==
    /\ checked.op = "none"
    /\ \E version \in Versions :
       \E out \in {check_openvino_version(version, installed_version, displayed)} :
            /\ displayed' = out.displayed
            /\ checked' = [op |-> "check_openvino_version", version |-> version,
                           ret |-> out.ret, exc |-> out.exc, before |-> displayed]
    /\ UNCHANGED <<available_devices, installed_version>>

----------------------------------------------------------------------------
(* Label, SegmentationMap                                                  *)

MaxLabels == 2
MaxOps == 3

LabelNames == {None, <<"r", "o", "a", "d">>}

\* Label(index, color, name): a tuple.
Label(index, color, name) == [index |-> index, color |-> color, name |-> name]

Labels ==
    {Label(index, color, name) :
        index \in 0..(MaxLabels - 1),
        color \in {<<255, 255, 255>>, <<0, 0, 0>>},
        name \in LabelNames}

\* The lists a SegmentationMap is constructed with.
LabelLists == UNION {[1..n -> Labels] : n \in 0..MaxLabels}

\* np.array([label.color for label in self.labels])
get_colormap(ls) == [i \in DOMAIN ls |-> ls[i].color]

\* The None that get_labels returns; no list of names it returns equals it,
\* since such a list holds a name other than None.
NoNames == <<None>>

\* get_labels: the names, or None when no label has a (non-empty) name.
get_labels(ls) ==
    LET labelnames == [i \in DOMAIN ls |-> ls[i].name]
    IN  IF \E i \in DOMAIN ls : labelnames[i] # None /\ labelnames[i] # <<>>
        THEN labelnames ELSE NoNames

\* What a read returns: the object, and whether it is the list object the
\* map refers to (segmap.labels) or an object made for the caller
\* (np.array(...), the list labelnames).
Held(kind, value, is_labels) == [kind |-> kind, value |-> value, is_labels |-> is_labels]

NothingHeld == Held("none", <<>>, FALSE)

NoLabelOp == [op |-> "none", exc |-> NoExc, before |-> <<>>, n |-> 0]

LabelOp(op, exc) == [op |-> op, exc |-> exc, before |-> labels, n |-> label_op.n + 1]

SetAttrRebinds(ls, value) == [labels |-> value, exc |-> NoExc]

\* segmap.labels = value, for a NamedTuple: AttributeError, nothing changes.
SetAttr(ls, value) == [labels |-> ls, exc |-> Exc("AttributeError")]

\* colors = segmap.get_colormap()
CallGetColormap ==
    /\ label_op.n < MaxOps
    /\ held' = Held("colormap", get_colormap(labels), FALSE)
    /\ label_op' = LabelOp("get_colormap", NoExc)
    /\ UNCHANGED <<labels, constructed>>

\* names = segmap.get_labels()
CallGetLabels ==
    /\ label_op.n < MaxOps
    /\ held' = Held("names", get_labels(labels), FALSE)
    /\ label_op' = LabelOp("get_labels", NoExc)
    /\ UNCHANGED <<labels, constructed>>

\* viz_result_image(..., labels=segmap): the legend is built from
\* labels.get_colormap() and labels.get_labels().
CallVizResultImage ==
    /\ label_op.n < MaxOps
    /\ \E colors \in {get_colormap(labels)}, names \in {get_labels(labels)} :
            label_op' = LabelOp("viz_result_image", NoExc)
    /\ UNCHANGED <<labels, constructed, held>>

\* segmap.labels: the attribute read returns the list object itself.
ReadLabels ==
    /\ label_op.n < MaxOps
    /\ held' = Held("labels", labels, TRUE)
    /\ label_op' = LabelOp("read_labels", NoExc)
    /\ UNCHANGED <<labels, constructed>>

\* segmap.labels = value
AssignLabels ==
    /\ label_op.n < MaxOps
    /\ \E value \in {<<>>} \cup {<<l>> : l \in Labels} :
       \E out \in {SetAttr(labels, value)} :
            /\ labels' = out.labels
            /\ label_op' = LabelOp("assign_labels", out.exc)
    /\ UNCHANGED <<constructed, held>>

\* label.color = value, for a Label of the map: AttributeError as well.
AssignLabelColor ==
    /\ label_op.n < MaxOps
    /\ labels # <<>>
    /\ label_op' = LabelOp("assign_label_color", Exc("AttributeError"))
    /\ UNCHANGED <<labels, constructed, held>>

\* The values that can be stored into the object a read returned.
Items(kind) ==
    IF kind = "colormap" THEN {<<128, 64, 128>>}
    ELSE IF kind = "names" THEN {<<"s", "k", "y">>}
    ELSE {Label(0, <<128, 64, 128>>, None)}

\* held[i] = item: the caller changes the object it got.  The change shows
\* in the map when that object is the list of the map.
StoreIntoHeld ==
    /\ label_op.n < MaxOps
    /\ held.kind # "none"
    /\ held.kind = "names" => held.value # NoNames
    /\ \E i \in DOMAIN held.value, item \in Items(held.kind) :
            /\ held' = [held EXCEPT !.value[i] = item]
            /\ labels' = IF held.is_labels THEN [held.value EXCEPT ![i] = item]
                         ELSE labels
    /\ label_op' = LabelOp("store_into_held", NoExc)
    /\ UNCHANGED constructed

\* held.append(item), for the lists (a numpy array has no append).
AppendToHeld ==
    /\ label_op.n < MaxOps
    /\ held.kind \in {"names", "labels"}
    /\ held.kind = "names" => held.value # NoNames
    /\ \E item \in Items(held.kind) :
            /\ held' = [held EXCEPT !.value = Append(held.value, item)]
            /\ labels' = IF held.is_labels THEN Append(held.value, item) ELSE labels
    /\ label_op' = LabelOp("append_to_held", NoExc)
    /\ UNCHANGED constructed

----------------------------------------------------------------------------
(* Background removal (notebook 205): the cells that compose the new image *)

\* The segmentation results of an image of h rows and w columns.
Segmentations(h, w) ==
    {[shape |-> <<h, w>>, px |-> p] : p \in [Positions(h, w) -> {0, 1}]}

\* array[selection == value] = fill, for an array of channel triples.
SetWhere(array, selection, value, fill) ==
    [shape |-> array.shape,
     px |-> [pos \in DOMAIN array.px |->
                IF selection.px[pos] = value THEN <<fill, fill, fill>>
                ELSE array.px[pos]]]

\* a + b of two uint8 arrays of one shape: numpy adds modulo 256.
AddUint8(a, b) ==
    [shape |-> a.shape,
     px |-> [pos \in DOMAIN a.px |->
                [c \in 1..3 |-> (a.px[pos][c] + b.px[pos][c]) % 256]]]

\* bg_removed_result = image.copy(); bg_removed_result[resized_result == 0] = 255
RunVisualizeCell ==
    /\ source_image # NoImage
    /\ bg_removed_result = NoImage
    /\ bg_removed_result' = SetWhere(source_image, resized_result, 0, 255)
    /\ UNCHANGED <<source_image, resized_result, background_image, new_image>>

\* background_image = cv2.resize(...); background_image[resized_result == 1] = 0
\* new_image = background_image + bg_removed_result
RunAddBackgroundCell ==
    /\ bg_removed_result # NoImage
    /\ new_image = NoImage
    /\ \E resized \in {im \in Images : im.shape = source_image.shape} :
       \E cleared \in {SetWhere(resized, resized_result, 1, 0)} :
          /\ background_image' = cleared
          /\ new_image' = AddUint8(cleared, bg_removed_result)
    /\ UNCHANGED <<source_image, resized_result, bg_removed_result>>

----------------------------------------------------------------------------
(* Background removal (notebook 205): the cells that fetch the weights     *)

MaxRuns == 4

\* model_path = Path(MODEL_DIR) / u2net_model.name / Path(name).with_suffix(".pth")
model_path == PathOf(<<"m", "/", "u", "/", "u", ".", "p">>)

\* The size of the complete weights file.
WeightsSize == MaxSize

\* What gdown.download(url, output=model_file) can do to the open file: write
\* all of it; write a part and raise (the connection breaks, the kernel is
\* interrupted); or report on stderr that the file cannot be fetched and
\* return None with nothing written.
GdownOutcomes ==
    {[n |-> WeightsSize, exc |-> NoExc], [n |-> 0, exc |-> NoExc]}
    \cup {[n |-> n, exc |-> Exc(type)] :
            n \in 0..(WeightsSize - 1), type \in {"ConnectionError", "KeyboardInterrupt"}}

NoRuns == [runs |-> 0, op |-> "none", exc |-> NoExc, before |-> <<>>]

\* One run of the cell: if not model_path.exists(): os.makedirs(...);
\* with open(model_path, "wb") as model_file: gdown.download(...).
\* `before` is the size of the file at model_path when the run starts.
RunDownloadWeightsCell ==
    /\ weights_cell.runs < MaxRuns
    /\ \E loc \in {Locate(model_path)}, fs \in {[files |-> files, dirs |-> dirs]} :
       \E before \in {IF loc \in DOMAIN files THEN <<files[loc]>> ELSE <<>>} :
          IF Exists(fs, loc)
          THEN /\ weights_cell' = [runs |-> weights_cell.runs + 1, op |-> "skipped",
                                   exc |-> NoExc, before |-> before]
               /\ UNCHANGED <<files, dirs>>
          ELSE \E made \in {MkdirParents(fs, SubSeq(loc, 1, Len(loc) - 1))} :
               IF made.exc # NoExc
               THEN /\ weights_cell' = [runs |-> weights_cell.runs + 1, op |-> "makedirs",
                                        exc |-> made.exc, before |-> before]
                    /\ UNCHANGED <<files, dirs>>
               ELSE \E transfer \in GdownOutcomes :
                    \* open(model_path, "wb") creates the file; gdown writes to it
                    /\ files' = WriteFile(made.fs, loc, transfer.n).files
                    /\ dirs' = made.fs.dirs
                    /\ weights_cell' = [runs |-> weights_cell.runs + 1, op |-> "download",
                                        exc |-> transfer.exc, before |-> before]
    /\ UNCHANGED call

\* What torch.load raises on a file that is not a complete checkpoint.
LoadFailures == {"EOFError", "RuntimeError", "UnpicklingError"}

\* The next cell: net.load_state_dict(torch.load(model_path, map_location="cpu"))
RunLoadWeightsCell ==
    /\ weights_cell.runs < MaxRuns
    /\ \E loc \in {Locate(model_path)} :
       \E before \in {IF loc \in DOMAIN files THEN <<files[loc]>> ELSE <<>>} :
       \E exc \in IF before = <<>> THEN {Exc("FileNotFoundError")}
                  ELSE IF before = <<WeightsSize>> THEN {NoExc}
                  ELSE {Exc(type) : type \in LoadFailures} :
          weights_cell' = [runs |-> weights_cell.runs + 1, op |-> "load",
                           exc |-> exc, before |-> before]
    /\ UNCHANGED <<files, dirs, call>>

----------------------------------------------------------------------------
(* DownloadProgressBar and the reports of urlretrieve                      *)

\* The block size of urlretrieve.
BlockSize == 2

\* DownloadProgressBar(total=urlobject_size, ..., disable=not show_progress)
DownloadProgressBar(total, disable) == [total |-> total, n |-> 0, disable |-> disable]

NoBar == [total |-> 0, n |-> 0, disable |-> TRUE]

\* tqdm.update(k): a disabled bar does not count.
Update(bar, k) == IF bar.disable THEN bar ELSE [bar EXCEPT !.n = @ + k]

UpdateToWithoutGuard(bar, block_num, block_size, total_size) ==
    Update(bar, block_num * block_size - bar.n)

\* DownloadProgressBar.update_to(block_num, block_size, total_size)
update_to(bar, block_num, block_size, total_size) ==
    IF block_num * block_size <= total_size
    THEN Update(bar, block_num * block_size - bar.n)
    ELSE bar

Min(a, b) == IF a <= b THEN a ELSE b

\* urlretrieve: `size` is the Content-Length of its own response (NoCL when
\* the header is missing), `arriving` the bytes the connection will still
\* deliver, `read` the bytes written to the file, `blocknum` the blocks
\* reported, `n_before` the bar's count before the last report.
NoTransfer ==
    [state |-> "none", urlobject_size |-> 0, size |-> NoCL, arriving |-> 0,
     read |-> 0, blocknum |-> 0, n_before |-> 0]

\* Lines 143-153 up to the first report: the bar is created, urlretrieve
\* opens the URL and calls reporthook(0, bs, size).
StartRetrieval ==
    /\ retrieval.state = "none"
    /\ \E urlobject_size \in 0..MaxSize, show_progress \in BOOLEAN,
          size \in {NoCL} \cup (0..MaxSize), arriving \in 0..MaxSize :
          /\ size # NoCL => arriving <= size
          /\ \E bar \in {DownloadProgressBar(urlobject_size, ~show_progress)} :
                /\ progress_callback' = update_to(bar, 0, BlockSize, size)
                /\ retrieval' = [state |-> "reading", urlobject_size |-> urlobject_size,
                                 size |-> size, arriving |-> arriving,
                                 read |-> 0, blocknum |-> 0, n_before |-> bar.n]

\* block = fp.read(bs); read += len(block); blocknum += 1;
\* reporthook(blocknum, bs, size)
ReadBlock ==
    /\ retrieval.state = "reading"
    /\ retrieval.arriving > 0
    /\ \E len \in {Min(BlockSize, retrieval.arriving)} :
          /\ retrieval' = [retrieval EXCEPT !.arriving = @ - len, !.read = @ + len,
                                            !.blocknum = @ + 1,
                                            !.n_before = progress_callback.n]
          /\ progress_callback' = update_to(progress_callback, retrieval.blocknum + 1,
                                            BlockSize, retrieval.size)

\* if size >= 0 and read < size: raise ContentTooShortError
RetrievalFallsShort ==
    /\ retrieval.state = "reading"
    /\ retrieval.arriving = 0
    /\ retrieval.size # NoCL /\ retrieval.read < retrieval.size
    /\ retrieval' = [retrieval EXCEPT !.state = "raised"]
    /\ UNCHANGED progress_callback

\* urlretrieve returns; if os.stat(filename).st_size >= urlobject_size:
\* progress_callback.update(urlobject_size - progress_callback.n)
RetrievalReturns ==
    /\ retrieval.state = "reading"
    /\ retrieval.arriving = 0
    /\ ~(retrieval.size # NoCL /\ retrieval.read < retrieval.size)
    /\ retrieval' = [retrieval EXCEPT !.state = "returned",
                                      !.n_before = progress_callback.n]
    /\ progress_callback' =
          IF retrieval.read >= retrieval.urlobject_size
          THEN Update(progress_callback,
                      retrieval.urlobject_size - progress_callback.n)
          ELSE progress_callback

----------------------------------------------------------------------------
(* Specifications                                                          *)

InitImagesOnly ==
    /\ image_data \in Images
    /\ bgr_original = image_data
    /\ rgb_array = NoImage
    /\ bgr_array_converted = NoImage
    /\ data = NoArray
    /\ normalized = NotCalled
    /\ files = NoFiles
    /\ dirs = {}
    /\ call = NoCall
    /\ result = NoResult
    /\ colormap = <<>>
    /\ seg = NoCall
    /\ available_devices = <<>>
    /\ installed_version = <<>>
    /\ displayed = <<>>
    /\ checked = NoCall
    /\ labels = <<>>
    /\ constructed = <<>>
    /\ held = NothingHeld
    /\ label_op = NoLabelOp
    /\ source_image = NoImage
    /\ resized_result = NoImage
    /\ bg_removed_result = NoImage
    /\ background_image = NoImage
    /\ new_image = NoImage
    /\ weights_cell = NoRuns
    /\ progress_callback = NoBar
    /\ retrieval = NoTransfer

NextImages ==
    \/ CallToRgb /\ UNCHANGED <<normVars, fileVars, segVars, checkVars, labelVars, composeVars, weightsVars, progressVars>>
    \/ CallToBgr /\ UNCHANGED <<normVars, fileVars, segVars, checkVars, labelVars, composeVars, weightsVars, progressVars>>

SpecImages == InitImagesOnly /\ [][NextImages]_vars

InitNormalizeOnly ==
    /\ data \in Arrays
    /\ normalized = NotCalled
    /\ image_data = NoImage
    /\ bgr_original = NoImage
    /\ rgb_array = NoImage
    /\ bgr_array_converted = NoImage
    /\ files = NoFiles
    /\ dirs = {}
    /\ call = NoCall
    /\ result = NoResult
    /\ colormap = <<>>
    /\ seg = NoCall
    /\ available_devices = <<>>
    /\ installed_version = <<>>
    /\ displayed = <<>>
    /\ checked = NoCall
    /\ labels = <<>>
    /\ constructed = <<>>
    /\ held = NothingHeld
    /\ label_op = NoLabelOp
    /\ source_image = NoImage
    /\ resized_result = NoImage
    /\ bg_removed_result = NoImage
    /\ background_image = NoImage
    /\ new_image = NoImage
    /\ weights_cell = NoRuns
    /\ progress_callback = NoBar
    /\ retrieval = NoTransfer

NextNormalize == CallNormalize /\ UNCHANGED <<imageVars, fileVars, segVars, checkVars, labelVars, composeVars, weightsVars, progressVars>>

SpecNormalize == InitNormalizeOnly /\ [][NextNormalize]_vars

DirD == Cwd \o << <<"d">> >>
DirDE == DirD \o << <<"e">> >>

NameA == <<"a">>
NameD == <<"d">>
NameXml == <<"m", ".", "x", "m", "l">>
NameBin == <<"m", ".", "b", "i", "n">>

\* download_file is called in a working directory that holds earlier
\* downloads, with or without the target directory d/e.
InitDownload ==
    /\ \E fs \in Filesystems(Prefixes(Cwd), {Cwd \o <<NameA>>, DirD, Cwd \o <<NameXml>>})
              \cup Filesystems(Prefixes(DirD), {Cwd \o <<NameA>>})
              \cup Filesystems(Prefixes(DirDE),
                               {Cwd \o <<NameA>>, DirDE \o <<NameA>>, DirDE \o <<NameD>>}) :
         /\ files = fs.files
         /\ dirs = fs.dirs
    /\ call = NoCall
    /\ image_data = NoImage
    /\ bgr_original = NoImage
    /\ rgb_array = NoImage
    /\ bgr_array_converted = NoImage
    /\ data = NoArray
    /\ normalized = NotCalled
    /\ result = NoResult
    /\ colormap = <<>>
    /\ seg = NoCall
    /\ available_devices = <<>>
    /\ installed_version = <<>>
    /\ displayed = <<>>
    /\ checked = NoCall
    /\ labels = <<>>
    /\ constructed = <<>>
    /\ held = NothingHeld
    /\ label_op = NoLabelOp
    /\ source_image = NoImage
    /\ resized_result = NoImage
    /\ bg_removed_result = NoImage
    /\ background_image = NoImage
    /\ new_image = NoImage
    /\ weights_cell = NoRuns
    /\ progress_callback = NoBar
    /\ retrieval = NoTransfer

NextDownload ==
    DownloadFileCall({XmlUrl}, {None, NameA, NameD}, {None, <<"d", "/", "e">>},
                     Opens(None), Retrievals)
      /\ UNCHANGED <<imageVars, normVars, segVars, checkVars, labelVars, composeVars, weightsVars, progressVars>>

SpecDownload == InitDownload /\ [][NextDownload]_vars

\* download_file is called with every short filename, in a working
\* directory with or without the directory d and an earlier download a.
InitNames ==
    /\ \E fs \in Filesystems(Prefixes(Cwd), {Cwd \o <<NameA>>})
              \cup Filesystems(Prefixes(DirD), {Cwd \o <<NameA>>, DirD \o <<NameA>>}) :
         /\ files = fs.files
         /\ dirs = fs.dirs
    /\ call = NoCall
    /\ image_data = NoImage
    /\ bgr_original = NoImage
    /\ rgb_array = NoImage
    /\ bgr_array_converted = NoImage
    /\ data = NoArray
    /\ normalized = NotCalled
    /\ result = NoResult
    /\ colormap = <<>>
    /\ seg = NoCall
    /\ available_devices = <<>>
    /\ installed_version = <<>>
    /\ displayed = <<>>
    /\ checked = NoCall
    /\ labels = <<>>
    /\ constructed = <<>>
    /\ held = NothingHeld
    /\ label_op = NoLabelOp
    /\ source_image = NoImage
    /\ resized_result = NoImage
    /\ bg_removed_result = NoImage
    /\ background_image = NoImage
    /\ new_image = NoImage
    /\ weights_cell = NoRuns
    /\ progress_callback = NoBar
    /\ retrieval = NoTransfer

NextNames ==
    DownloadFileCall({XmlUrl}, AllNames \cup {None}, {None, NameD},
                     {HttpErrorResponse(e) : e \in HttpErrors}
                       \cup {OkResponse(cl, None) : cl \in {NoCL} \cup (0..MaxSize)},
                     {RetrHttpError(e) : e \in HttpErrors}
                       \cup {RetrOk(n) : n \in 0..MaxSize})
      /\ UNCHANGED <<imageVars, normVars, segVars, checkVars, labelVars, composeVars, weightsVars, progressVars>>

SpecNames == InitNames /\ [][NextNames]_vars

\* download_ir_model is called in a working directory with or without the
\* directory d and earlier downloads of the model files.
InitIrModel ==
    /\ \E fs \in Filesystems(Prefixes(Cwd), {Cwd \o <<NameXml>>, Cwd \o <<NameBin>>})
              \cup Filesystems(Prefixes(DirD), {DirD \o <<NameXml>>, DirD \o <<NameBin>>}) :
         /\ files = fs.files
         /\ dirs = fs.dirs
    /\ call = NoCall
    /\ image_data = NoImage
    /\ bgr_original = NoImage
    /\ rgb_array = NoImage
    /\ bgr_array_converted = NoImage
    /\ data = NoArray
    /\ normalized = NotCalled
    /\ result = NoResult
    /\ colormap = <<>>
    /\ seg = NoCall
    /\ available_devices = <<>>
    /\ installed_version = <<>>
    /\ displayed = <<>>
    /\ checked = NoCall
    /\ labels = <<>>
    /\ constructed = <<>>
    /\ held = NothingHeld
    /\ label_op = NoLabelOp
    /\ source_image = NoImage
    /\ resized_result = NoImage
    /\ bg_removed_result = NoImage
    /\ background_image = NoImage
    /\ new_image = NoImage
    /\ weights_cell = NoRuns
    /\ progress_callback = NoBar
    /\ retrieval = NoTransfer

NextIrModel ==
    DownloadIrModelCall({XmlUrl, XmlUrlWithQuery}, {None, NameD},
                        {HttpErrorResponse(NotFound)}
                          \cup {OkResponse(cl, disp) : cl \in {NoCL} \cup (0..MaxSize),
                                                       disp \in {None, NameA}},
                        {RetrHttpError(NotFound)}
                          \cup {RetrCut(n) : n \in 0..(MaxSize - 1)}
                          \cup {RetrOk(n) : n \in 0..MaxSize})
      /\ UNCHANGED <<imageVars, normVars, segVars, checkVars, labelVars, composeVars, weightsVars, progressVars>>

SpecIrModel == InitIrModel /\ [][NextIrModel]_vars

\* The segmentation functions are called with every small array and
\* colormap.
InitSegmentation ==
    /\ result \in Results
    /\ colormap \in Colormaps
    /\ seg = NoCall
    /\ image_data = NoImage
    /\ bgr_original = NoImage
    /\ rgb_array = NoImage
    /\ bgr_array_converted = NoImage
    /\ data = NoArray
    /\ normalized = NotCalled
    /\ files = NoFiles
    /\ dirs = {}
    /\ call = NoCall
    /\ available_devices = <<>>
    /\ installed_version = <<>>
    /\ displayed = <<>>
    /\ checked = NoCall
    /\ labels = <<>>
    /\ constructed = <<>>
    /\ held = NothingHeld
    /\ label_op = NoLabelOp
    /\ source_image = NoImage
    /\ resized_result = NoImage
    /\ bg_removed_result = NoImage
    /\ background_image = NoImage
    /\ new_image = NoImage
    /\ weights_cell = NoRuns
    /\ progress_callback = NoBar
    /\ retrieval = NoTransfer

NextSegmentation ==
    \/ CallSegmentationMapToImage /\ UNCHANGED <<imageVars, normVars, fileVars, checkVars, labelVars, composeVars, weightsVars, progressVars>>
    \/ CallSegmentationMapToOverlay /\ UNCHANGED <<imageVars, normVars, fileVars, checkVars, labelVars, composeVars, weightsVars, progressVars>>

SpecSegmentation == InitSegmentation /\ [][NextSegmentation]_vars

\* The checks are called on a system with some devices and some installed
\* version, with or without an alert displayed earlier.
InitChecks ==
    /\ available_devices \in DeviceLists
    /\ installed_version \in InstalledVersions
    /\ displayed \in {<<>>, NotebookAlert(<<>>, "info", <<>>)}
    /\ checked = NoCall
    /\ result = NoResult
    /\ colormap = <<>>
    /\ seg = NoCall
    /\ image_data = NoImage
    /\ bgr_original = NoImage
    /\ rgb_array = NoImage
    /\ bgr_array_converted = NoImage
    /\ data = NoArray
    /\ normalized = NotCalled
    /\ files = NoFiles
    /\ dirs = {}
    /\ call = NoCall
    /\ labels = <<>>
    /\ constructed = <<>>
    /\ held = NothingHeld
    /\ label_op = NoLabelOp
    /\ source_image = NoImage
    /\ resized_result = NoImage
    /\ bg_removed_result = NoImage
    /\ background_image = NoImage
    /\ new_image = NoImage
    /\ weights_cell = NoRuns
    /\ progress_callback = NoBar
    /\ retrieval = NoTransfer

NextChecks ==
    \/ CallCheckDevice /\ UNCHANGED <<imageVars, normVars, fileVars, segVars, labelVars, composeVars, weightsVars, progressVars>>
    \/ CallCheckOpenvinoVersion /\ UNCHANGED <<imageVars, normVars, fileVars, segVars, labelVars, composeVars, weightsVars, progressVars>>

SpecChecks == InitChecks /\ [][NextChecks]_vars

\* A SegmentationMap is constructed from a list of labels and then used.
InitLabels ==
    /\ labels \in LabelLists
    /\ constructed = labels
    /\ held = NothingHeld
    /\ label_op = NoLabelOp
    /\ available_devices = <<>>
    /\ installed_version = <<>>
    /\ displayed = <<>>
    /\ checked = NoCall
    /\ result = NoResult
    /\ colormap = <<>>
    /\ seg = NoCall
    /\ image_data = NoImage
    /\ bgr_original = NoImage
    /\ rgb_array = NoImage
    /\ bgr_array_converted = NoImage
    /\ data = NoArray
    /\ normalized = NotCalled
    /\ files = NoFiles
    /\ dirs = {}
    /\ call = NoCall
    /\ source_image = NoImage
    /\ resized_result = NoImage
    /\ bg_removed_result = NoImage
    /\ background_image = NoImage
    /\ new_image = NoImage
    /\ weights_cell = NoRuns
    /\ progress_callback = NoBar
    /\ retrieval = NoTransfer

NextLabels ==
    \/ CallGetColormap /\ UNCHANGED <<imageVars, normVars, fileVars, segVars, checkVars, composeVars, weightsVars, progressVars>>
    \/ CallGetLabels /\ UNCHANGED <<imageVars, normVars, fileVars, segVars, checkVars, composeVars, weightsVars, progressVars>>
    \/ CallVizResultImage /\ UNCHANGED <<imageVars, normVars, fileVars, segVars, checkVars, composeVars, weightsVars, progressVars>>
    \/ ReadLabels /\ UNCHANGED <<imageVars, normVars, fileVars, segVars, checkVars, composeVars, weightsVars, progressVars>>
    \/ AssignLabels /\ UNCHANGED <<imageVars, normVars, fileVars, segVars, checkVars, composeVars, weightsVars, progressVars>>
    \/ AssignLabelColor /\ UNCHANGED <<imageVars, normVars, fileVars, segVars, checkVars, composeVars, weightsVars, progressVars>>
    \/ StoreIntoHeld /\ UNCHANGED <<imageVars, normVars, fileVars, segVars, checkVars, composeVars, weightsVars, progressVars>>
    \/ AppendToHeld /\ UNCHANGED <<imageVars, normVars, fileVars, segVars, checkVars, composeVars, weightsVars, progressVars>>

SpecLabels == InitLabels /\ [][NextLabels]_vars

\* URLs with and without a file name at the end of their path.
Urls ==
    {XmlUrl, XmlUrlWithQuery, <<"h">>, <<"h", "/">>, <<"h", "/", "d", "/">>,
     <<"h", "/", "d", "/", "a">>, <<"h", "/", "a", "#", "a">>}

\* download_file is called without a filename, in a working directory
\* with or without the directory d and earlier downloads.
InitUrls ==
    /\ \E fs \in Filesystems(Prefixes(Cwd), {Cwd \o <<NameA>>, Cwd \o <<NameXml>>})
              \cup Filesystems(Prefixes(DirD), {DirD \o <<NameA>>, DirD \o <<NameXml>>}) :
         /\ files = fs.files
         /\ dirs = fs.dirs
    /\ call = NoCall
    /\ image_data = NoImage
    /\ bgr_original = NoImage
    /\ rgb_array = NoImage
    /\ bgr_array_converted = NoImage
    /\ data = NoArray
    /\ normalized = NotCalled
    /\ result = NoResult
    /\ colormap = <<>>
    /\ seg = NoCall
    /\ available_devices = <<>>
    /\ installed_version = <<>>
    /\ displayed = <<>>
    /\ checked = NoCall
    /\ labels = <<>>
    /\ constructed = <<>>
    /\ held = NothingHeld
    /\ label_op = NoLabelOp
    /\ source_image = NoImage
    /\ resized_result = NoImage
    /\ bg_removed_result = NoImage
    /\ background_image = NoImage
    /\ new_image = NoImage
    /\ weights_cell = NoRuns
    /\ progress_callback = NoBar
    /\ retrieval = NoTransfer

NextUrls ==
    DownloadFileCall(Urls, {None}, {None, NameD}, Opens(None),
                     {RetrHttpError(NotFound)} \cup {RetrOk(n) : n \in 0..MaxSize})
      /\ UNCHANGED <<imageVars, normVars, segVars, checkVars, labelVars, composeVars, weightsVars, progressVars>>

SpecUrls == InitUrls /\ [][NextUrls]_vars


\* Masks large enough to hold a hole: a square of HoleDim rows and columns
\* of the classes 0 and 1, as testmask1 of the visualization test cell
\* (a square of class 1 with a square of class 0 cut out of it).
HoleDim == 3

HoleResults ==
    {[shape |-> <<HoleDim, HoleDim>>, flat |-> f] :
        f \in [1..(HoleDim * HoleDim) -> {0, 1}]}

\* Colormaps of two different rows.
HoleColormaps == {cmap \in [1..2 -> Colors] : cmap[1] # cmap[2]}

\* segmentation_map_to_image is called on every such mask, with and
\* without remove_holes.
InitHoles ==
    /\ result \in HoleResults
    /\ colormap \in HoleColormaps
    /\ seg = NoCall
    /\ image_data = NoImage
    /\ bgr_original = NoImage
    /\ rgb_array = NoImage
    /\ bgr_array_converted = NoImage
    /\ data = NoArray
    /\ normalized = NotCalled
    /\ files = NoFiles
    /\ dirs = {}
    /\ call = NoCall
    /\ available_devices = <<>>
    /\ installed_version = <<>>
    /\ displayed = <<>>
    /\ checked = NoCall
    /\ labels = <<>>
    /\ constructed = <<>>
    /\ held = NothingHeld
    /\ label_op = NoLabelOp
    /\ source_image = NoImage
    /\ resized_result = NoImage
    /\ bg_removed_result = NoImage
    /\ background_image = NoImage
    /\ new_image = NoImage
    /\ weights_cell = NoRuns
    /\ progress_callback = NoBar
    /\ retrieval = NoTransfer

NextHoles ==
    CallSegmentationMapToImage /\ UNCHANGED <<imageVars, normVars, fileVars, checkVars, labelVars, composeVars, weightsVars, progressVars>>

SpecHoles == InitHoles /\ [][NextHoles]_vars


\* The notebook has read an image and rounded the network result to a
\* segmentation of the same height and width.
InitCompose ==
    /\ source_image \in Images
    /\ resized_result \in Segmentations(source_image.shape[1], source_image.shape[2])
    /\ bg_removed_result = NoImage
    /\ background_image = NoImage
    /\ new_image = NoImage
    /\ image_data = NoImage
    /\ bgr_original = NoImage
    /\ rgb_array = NoImage
    /\ bgr_array_converted = NoImage
    /\ data = NoArray
    /\ normalized = NotCalled
    /\ files = NoFiles
    /\ dirs = {}
    /\ call = NoCall
    /\ result = NoResult
    /\ colormap = <<>>
    /\ seg = NoCall
    /\ available_devices = <<>>
    /\ installed_version = <<>>
    /\ displayed = <<>>
    /\ checked = NoCall
    /\ labels = <<>>
    /\ constructed = <<>>
    /\ held = NothingHeld
    /\ label_op = NoLabelOp
    /\ weights_cell = NoRuns
    /\ progress_callback = NoBar
    /\ retrieval = NoTransfer

NextCompose ==
    \/ RunVisualizeCell /\ UNCHANGED <<imageVars, normVars, fileVars, segVars, checkVars, labelVars, weightsVars, progressVars>>
    \/ RunAddBackgroundCell /\ UNCHANGED <<imageVars, normVars, fileVars, segVars, checkVars, labelVars, weightsVars, progressVars>>

SpecCompose == InitCompose /\ [][NextCompose]_vars


\* The cells that download and load the weights are run again and again,
\* in a working directory without weights, where the model directory may
\* exist, may be missing, or may have a regular file in its place.
InitWeights ==
    /\ \E fs \in Filesystems(Prefixes(Cwd), {Cwd \o <<(<<"m">>)>>})
                 \cup Filesystems(Prefixes(Cwd \o <<(<<"m">>)>>), {Cwd \o <<(<<"m">>), <<"u">>>>})
                 \cup Filesystems(Prefixes(Locate(model_path)) \ {Locate(model_path)}, {}) :
          /\ files = fs.files
          /\ dirs = fs.dirs
    /\ call = NoCall
    /\ weights_cell = NoRuns
    /\ image_data = NoImage
    /\ bgr_original = NoImage
    /\ rgb_array = NoImage
    /\ bgr_array_converted = NoImage
    /\ data = NoArray
    /\ normalized = NotCalled
    /\ result = NoResult
    /\ colormap = <<>>
    /\ seg = NoCall
    /\ available_devices = <<>>
    /\ installed_version = <<>>
    /\ displayed = <<>>
    /\ checked = NoCall
    /\ labels = <<>>
    /\ constructed = <<>>
    /\ held = NothingHeld
    /\ label_op = NoLabelOp
    /\ source_image = NoImage
    /\ resized_result = NoImage
    /\ bg_removed_result = NoImage
    /\ background_image = NoImage
    /\ new_image = NoImage
    /\ progress_callback = NoBar
    /\ retrieval = NoTransfer

NextWeights ==
    \/ RunDownloadWeightsCell /\ UNCHANGED <<imageVars, normVars, segVars, checkVars, labelVars, composeVars, progressVars>>
    \/ RunLoadWeightsCell /\ UNCHANGED <<imageVars, normVars, segVars, checkVars, labelVars, composeVars, progressVars>>

SpecWeights == InitWeights /\ [][NextWeights]_vars


\* download_file is called, and called again with the same arguments, in a
\* working directory with or without the directory d and an earlier
\* download a.
InitRetry ==
    /\ \E fs \in Filesystems(Prefixes(Cwd), {Cwd \o <<NameA>>})
              \cup Filesystems(Prefixes(DirD), {DirD \o <<NameA>>}) :
         /\ files = fs.files
         /\ dirs = fs.dirs
    /\ call = NoCall
    /\ weights_cell = NoRuns
    /\ image_data = NoImage
    /\ bgr_original = NoImage
    /\ rgb_array = NoImage
    /\ bgr_array_converted = NoImage
    /\ data = NoArray
    /\ normalized = NotCalled
    /\ result = NoResult
    /\ colormap = <<>>
    /\ seg = NoCall
    /\ available_devices = <<>>
    /\ installed_version = <<>>
    /\ displayed = <<>>
    /\ checked = NoCall
    /\ labels = <<>>
    /\ constructed = <<>>
    /\ held = NothingHeld
    /\ label_op = NoLabelOp
    /\ source_image = NoImage
    /\ resized_result = NoImage
    /\ bg_removed_result = NoImage
    /\ background_image = NoImage
    /\ new_image = NoImage
    /\ progress_callback = NoBar
    /\ retrieval = NoTransfer

NextRetry ==
    \/ DownloadFileCall({XmlUrl}, {NameA}, {None, <<"d">>}, Opens(NameA), Retrievals)
         /\ UNCHANGED <<imageVars, normVars, segVars, checkVars, labelVars, composeVars, weightsVars, progressVars>>
    \/ DownloadFileAgain(Opens(NameA), Retrievals)
         /\ UNCHANGED <<imageVars, normVars, segVars, checkVars, labelVars, composeVars, weightsVars, progressVars>>

SpecRetry == InitRetry /\ [][NextRetry]_vars


\* download_file has found that it must retrieve the file.
InitProgress ==
    /\ progress_callback = NoBar
    /\ retrieval = NoTransfer
    /\ files = NoFiles
    /\ dirs = {}
    /\ call = NoCall
    /\ weights_cell = NoRuns
    /\ image_data = NoImage
    /\ bgr_original = NoImage
    /\ rgb_array = NoImage
    /\ bgr_array_converted = NoImage
    /\ data = NoArray
    /\ normalized = NotCalled
    /\ result = NoResult
    /\ colormap = <<>>
    /\ seg = NoCall
    /\ available_devices = <<>>
    /\ installed_version = <<>>
    /\ displayed = <<>>
    /\ checked = NoCall
    /\ labels = <<>>
    /\ constructed = <<>>
    /\ held = NothingHeld
    /\ label_op = NoLabelOp
    /\ source_image = NoImage
    /\ resized_result = NoImage
    /\ bg_removed_result = NoImage
    /\ background_image = NoImage
    /\ new_image = NoImage

NextProgress ==
    \/ StartRetrieval /\ UNCHANGED <<imageVars, normVars, fileVars, segVars, checkVars, labelVars, composeVars, weightsVars>>
    \/ ReadBlock /\ UNCHANGED <<imageVars, normVars, fileVars, segVars, checkVars, labelVars, composeVars, weightsVars>>
    \/ RetrievalFallsShort /\ UNCHANGED <<imageVars, normVars, fileVars, segVars, checkVars, labelVars, composeVars, weightsVars>>
    \/ RetrievalReturns /\ UNCHANGED <<imageVars, normVars, fileVars, segVars, checkVars, labelVars, composeVars, weightsVars>>

SpecProgress == InitProgress /\ [][NextProgress]_vars

----------------------------------------------------------------------------
(* Properties                                                              *)

Returned == call.op = "download_file" /\ call.exc = NoExc
Raised == call.op = "download_file" /\ call.exc # NoExc

\* os.stat(path).st_size in the filesystem after the call.
SizeAfter(loc) == IF loc \in DOMAIN files THEN files[loc] ELSE call.dir_size

\* C1: when the target is an existing file whose size equals the
\* Content-Length of the response, download_file does not call urlretrieve,
\* leaves the filesystem as it was and returns the resolved path of the file.
C1_NoRetrievalWhenSizeMatches ==
    ( /\ call.op = "download_file"
      /\ call.target # NoPath
      /\ call.target \in DOMAIN call.before.files
      /\ call.open.cl # NoCL
      /\ call.before.files[call.target] = call.open.cl )
    => /\ call.retrieved = 0
       /\ call.exc = NoExc
       /\ files = call.before.files
       /\ dirs = call.before.dirs
       /\ call.ret = call.target

C1_Witness ==
    /\ Returned
    /\ call.retrieved = 0
    /\ call.target \in DOMAIN call.before.files
    /\ call.open.cl = 1
    /\ call.before.files[call.target] = 1
    /\ call.directory # None

\* C2 as claimed: whenever download_file returns normally after a response
\* that reported a Content-Length, the file at the returned path has that
\* size.
C2_ReturnedFileHasContentLength ==
    (Returned /\ call.open.cl # NoCL) => SizeAfter(call.ret) = call.open.cl

\* C2 as amended: when download_file returns normally without having called
\* urlretrieve, the size of the returned path equals the Content-Length of
\* the response (0 when the header is absent); when it returns after
\* urlretrieve, the file has the size that transfer wrote, whatever the
\* Content-Length of the first response was.
C2_SizeIsComparedBeforeRetrievalOnly ==
    Returned
    => SizeAfter(call.ret) =
         (IF call.retrieved = 1 THEN call.retr.n
          ELSE IF call.open.cl = NoCL THEN 0 ELSE call.open.cl)

C2_Witness ==
    /\ Returned
    /\ call.retrieved = 0
    /\ call.ret \in DOMAIN files
    /\ call.open.cl = MaxSize
    /\ call.filename = None

SlashFreeRuns(s) ==
    {r \in (1..Len(s)) \X (1..Len(s)) :
        /\ r[1] <= r[2]
        /\ \A k \in r[1]..r[2] : s[k] # "/"
        /\ r[1] = 1 \/ s[r[1] - 1] = "/"
        /\ r[2] = Len(s) \/ s[r[2] + 1] = "/"}

\* s names more than one path part: the root counts as a part, a run "."
\* does not.
HasSeveralParts(s) ==
    Cardinality({r \in SlashFreeRuns(s) : SubSeq(s, r[1], r[2]) # <<".">>})
      + (IF s # <<>> /\ s[1] = "/" THEN 1 ELSE 0) > 1

HasSeparator(s) == \E i \in 1..Len(s) : s[i] = "/"

\* C4 as claimed, for a URL that opens: every filename that contains a
\* directory separator makes download_file raise ValueError without
\* downloading anything.
C4_SeparatorRaisesValueError ==
    ( /\ call.op = "download_file"
      /\ call.filename # None
      /\ call.open.kind = "ok"
      /\ HasSeparator(call.filename) )
    => call.exc.type = "ValueError" /\ call.retrieved = 0

\* C4 as amended: once the URL has been opened, download_file raises
\* ValueError exactly for the filenames that name more than one path part
\* ("a/a", "/a"), and then downloads nothing and leaves the filesystem as
\* it was; separators that pathlib drops ("a/", "./a") or a lone root ("/")
\* are accepted.
C4_SeveralPartsRaiseValueError ==
    (call.op = "download_file" /\ call.filename # None /\ call.open.kind = "ok")
    => /\ call.exc.type = "ValueError" <=> HasSeveralParts(call.filename)
       /\ call.exc.type = "ValueError"
          => /\ call.retrieved = 0
             /\ call.ret = NoPath
             /\ files = call.before.files
             /\ dirs = call.before.dirs

C4_Witness ==
    /\ call.op = "download_file"
    /\ call.filename = <<"a", "/", "a">>
    /\ call.exc.type = "ValueError"
    /\ call.directory = NameD
    /\ DirD \notin dirs

\* The name the file is saved under and the directory it is saved in, for
\* the plain names and the directory d/e of SpecDownload.
SavedName ==
    IF call.filename # None THEN call.filename
    ELSE IF call.open.disp # None THEN call.open.disp ELSE NameXml

SavedIn == IF call.directory = None THEN Cwd ELSE DirDE

ReplaceXmlExtension(url) ==
    LET at == {i \in 1..(Len(url) - 3) : SubSeq(url, i, i + 3) = <<".", "x", "m", "l">>}
        last == CHOOSE i \in at : \A j \in at : j <= i
    IN  IF at = {} THEN url
        ELSE SubSeq(url, 1, last - 1) \o <<".", "b", "i", "n">>
             \o SubSeq(url, last + 4, Len(url))

Destination == IF call.directory = None THEN Cwd ELSE DirD

IrModelFilesInPlace ==
    /\ Destination \o <<NameXml>> \in DOMAIN files
    /\ Destination \o <<NameBin>> \in DOMAIN files
    /\ call.bin.opened = 1
    /\ call.bin_url = ReplaceXmlExtension(call.url)
    /\ call.ret = Destination \o <<NameXml>>

C7_RoundTripIsIdentity ==
    bgr_array_converted # NoImage => bgr_array_converted = bgr_original

C7_Witness ==
    /\ bgr_array_converted # NoImage
    /\ rgb_array # bgr_original
    /\ bgr_original.shape = <<2, 2, 3>>

\* C8: to_rgb(x) has the shape of x, its channel 2 is channel 0 of x, its
\* channel 0 is channel 2 of x and its channel 1 is channel 1 of x; x is as
\* it was.
C8_ToRgbSwapsOuterChannels ==
    rgb_array # NoImage
    => /\ rgb_array.shape = bgr_original.shape
       /\ DOMAIN rgb_array.px = DOMAIN bgr_original.px
       /\ \A pos \in DOMAIN bgr_original.px :
            /\ rgb_array.px[pos][3] = bgr_original.px[pos][1]
            /\ rgb_array.px[pos][1] = bgr_original.px[pos][3]
            /\ rgb_array.px[pos][2] = bgr_original.px[pos][2]
       /\ image_data = bgr_original

C8_Witness ==
    /\ rgb_array # NoImage
    /\ bgr_original.shape = <<1, 2, 3>>
    /\ \E pos \in DOMAIN bgr_original.px : bgr_original.px[pos] = <<0, 1, 2>>

Distinct(v) == {v[i] : i \in DOMAIN v}

\* The fraction q = <<numerator, denominator>> compared with 0 and 1.
IsZero(q) == q[2] # 0 /\ q[1] = 0
IsOne(q) == q[2] # 0 /\ q[1] = q[2]
InUnitInterval(q) ==
    \/ q[2] > 0 /\ 0 <= q[1] /\ q[1] <= q[2]
    \/ q[2] < 0 /\ q[2] <= q[1] /\ q[1] <= 0

\* C9: for every array with at least two distinct values, of whatever
\* dtype, normalize_minmax returns an array of the same shape in which the
\* minimum of the input is 0, the maximum is 1 and every element lies
\* between 0 and 1.
C9_NormalizedIntoUnitInterval ==
    (normalized # NotCalled /\ Cardinality(Distinct(data.values)) >= 2)
    => /\ normalized.raised = ""
       /\ DOMAIN normalized.values = DOMAIN data.values
       /\ \A i \in DOMAIN data.values :
            /\ InUnitInterval(normalized.values[i])
            /\ data.values[i] = SeqMin(data.values) => IsZero(normalized.values[i])
            /\ data.values[i] = SeqMax(data.values) => IsOne(normalized.values[i])

\* C10: normalize_minmax raises ValueError exactly when all elements of the
\* input are equal, and what it divides by is never zero.
C10_RaisesExactlyWhenAllEqual ==
    normalized # NotCalled
    => /\ normalized.raised = "ValueError"
          <=> \A i, j \in DOMAIN data.values : data.values[i] = data.values[j]
       /\ normalized.raised = ""
          => \A i \in DOMAIN normalized.values : normalized.values[i][2] # 0

C10_Witness ==
    /\ normalized.raised = "ValueError"
    /\ Len(data.values) >= 2
    /\ data.dtype = Int8

SegCalled == seg.op # "none"

\* C11: segmentation_map_to_image raises ValueError, and returns no image,
\* for every input that has more distinct values than the colormap has
\* rows.
C11_TooManyClassesRaiseValueError ==
    ( /\ seg.op = "segmentation_map_to_image"
      /\ Cardinality({result.flat[i] : i \in DOMAIN result.flat}) > Len(colormap) )
    => seg.exc.type = "ValueError" /\ seg.image = NoImage

\* The shapes (H,W) and (1,H,W).
IsExpectedShape(shape) ==
    \/ Len(shape) = 2
    \/ Len(shape) = 3 /\ shape[1] = 1

\* C12: segmentation_map_to_image raises ValueError for every input whose
\* shape is neither (H,W) nor (1,H,W), and segmentation_map_to_overlay
\* raises the same error; stated for colormaps that have a row and enough
\* rows for the values of the input.
C12_UnexpectedShapeRaisesValueError ==
    ( /\ SegCalled
      /\ colormap # <<>>
      /\ Cardinality({result.flat[i] : i \in DOMAIN result.flat}) <= Len(colormap)
      /\ ~IsExpectedShape(result.shape) )
    => seg.exc.type = "ValueError"

\* The class index at row y and column x of a mask of shape (H,W) or
\* (1,H,W).
MaskAt(mask, pos) ==
    mask.flat[(pos[1] - 1) * mask.shape[Len(mask.shape)] + pos[2]]

\* C20: for every mask of shape (H,W) or (1,H,W) whose values are indices
\* of colormap rows, segmentation_map_to_image with remove_holes=False
\* returns an H x W x 3 image whose pixel (y,x) is colormap[mask[y,x]].
C20_MaskIsRenderedByColormap ==
    ( /\ seg.op = "segmentation_map_to_image"
      /\ ~seg.remove_holes
      /\ IsExpectedShape(result.shape)
      /\ \A i \in DOMAIN result.flat : result.flat[i] \in 0..(Len(colormap) - 1) )
    => LET h == result.shape[Len(result.shape) - 1]
           w == result.shape[Len(result.shape)]
       IN  /\ seg.exc = NoExc
           /\ seg.image.shape = <<h, w, 3>>
           /\ \A pos \in Positions(h, w) :
                seg.image.px[pos] = colormap[MaskAt(result, pos) + 1]

\* C13: check_device returns True exactly when the device is among the
\* available devices; a False return has displayed exactly one alert of
\* class "warning", a True return none; no exception is raised.
C13_CheckDeviceReportsAvailability ==
    checked.op = "check_device"
    => /\ checked.ret <=> checked.device \in {available_devices[i] :
                                                i \in DOMAIN available_devices}
       /\ checked.exc = NoExc
       /\ checked.ret => displayed = checked.before
       /\ ~checked.ret
          => /\ Len(displayed) = Len(checked.before) + 1
             /\ SubSeq(displayed, 1, Len(checked.before)) = checked.before
             /\ displayed[Len(displayed)].alert_class = "warning"

C13_Witness ==
    /\ checked.op = "check_device"
    /\ checked.device = "GPU"
    /\ available_devices = <<"CPU", "GPU">>
    /\ checked.ret

\* `version` names the installed version: the installed version string
\* starts with it, and it ends where a component of that string ends.
IsTheInstalledVersion(version, installed) ==
    /\ Len(version) <= Len(installed)
    /\ SubSeq(installed, 1, Len(version)) = version
    /\ \/ Len(version) = Len(installed)
       \/ installed[Len(version) + 1] \in {".", "-"}

\* C14: check_openvino_version returns True if the specified version is
\* the installed one and False if not; a False return has displayed exactly
\* one alert of class "danger", a True return none; no exception is raised.
C14_CheckVersionReportsInstalledVersion ==
    checked.op = "check_openvino_version"
    => /\ checked.ret <=> IsTheInstalledVersion(checked.version, installed_version)
       /\ checked.exc = NoExc
       /\ checked.ret => displayed = checked.before
       /\ ~checked.ret
          => /\ Len(displayed) = Len(checked.before) + 1
             /\ displayed[Len(displayed)].alert_class = "danger"

JustGotColormap == label_op.op = "get_colormap"

\* C15: the colormap has one row per label, and for every label l of the
\* map the row get_colormap()[l.index] is l.color.
C15_ColormapIndexedByLabelIndex ==
    JustGotColormap
    => /\ Len(held.value) = Len(labels)
       /\ \A i \in DOMAIN labels :
            /\ labels[i].index + 1 \in DOMAIN held.value
            /\ held.value[labels[i].index + 1] = labels[i].color

\* C16 as claimed: whatever is done with a SegmentationMap after its
\* construction, its labels are the ones it was constructed with.
C16_LabelsNeverChange == labels = constructed

\* C16 as amended: no method of the library changes the labels, assigning
\* to a field of the SegmentationMap or of a Label raises AttributeError
\* and changes nothing, and storing into the array of get_colormap or the
\* list of get_labels leaves the map as it was; the labels change only by
\* storing into or appending to the list object that segmap.labels refers
\* to.
C16_LabelsChangeOnlyThroughTheirList ==
    /\ label_op.op \in {"get_colormap", "get_labels", "viz_result_image", "read_labels"}
       => labels = label_op.before /\ label_op.exc = NoExc
    /\ label_op.op \in {"assign_labels", "assign_label_color"}
       => labels = label_op.before /\ label_op.exc.type = "AttributeError"
    /\ (label_op.op \in {"store_into_held", "append_to_held"} /\ ~held.is_labels)
       => labels = label_op.before
    /\ (label_op.op # "none" /\ labels # label_op.before)
       => label_op.op \in {"store_into_held", "append_to_held"} /\ held.is_labels

C16_Witness ==
    /\ label_op.op = "store_into_held"
    /\ held.kind = "colormap"
    /\ labels = constructed
    /\ held.value # get_colormap(labels)

\* C17: one call of download_file opens the URL at most once and starts
\* the retrieval at most once; when either fails, the call raises and
\* returns no path, and a failed open is followed by no retrieval.
C17_NoRetry ==
    call.op = "download_file"
    => /\ call.opened <= 1
       /\ call.retrieved <= 1
       /\ call.open.kind # "ok"
          => call.exc # NoExc /\ call.ret = NoPath /\ call.retrieved = 0
       /\ call.retr.kind \in {"http_error", "url_error", "cut"}
          => call.exc # NoExc /\ call.ret = NoPath /\ call.retrieved = 1

C17_Witness ==
    /\ call.op = "download_file"
    /\ call.retr.kind = "cut"
    /\ call.exc.type = "ContentTooShortError"
    /\ call.target \in DOMAIN files

\* C18: with the same URL, filename, directory, answers of the remote host
\* and initial filesystem, download_file returns the same path, raises the
\* same error and leaves the same files and directories whatever the
\* values of show_progress and silent.
C18_ProgressIsCosmetic ==
    call.op = "download_file"
    => \A show_progress \in BOOLEAN, silent \in BOOLEAN :
         \A other \in {download_file(call.before, call.url, call.filename,
                                      call.directory, show_progress, silent,
                                      Env(call.open, call.retr, call.dir_size))} :
            /\ other.ret = call.ret
            /\ other.exc = call.exc
            /\ other.fs.files = files
            /\ other.fs.dirs = dirs

C18_Witness ==
    /\ Returned
    /\ call.retrieved = 0
    /\ call.silent
    /\ ~call.show_progress
    /\ ~call.printed

\* The URL up to its query string or fragment.
WithoutQuery(url) ==
    LET cut == {i \in DOMAIN url : url[i] \in {"?", "#"}}
    IN  IF cut = {} THEN url
        ELSE SubSeq(url, 1, (CHOOSE i \in cut : \A j \in cut : i <= j) - 1)

\* The last component of the path of the URL, <<>> if the path has none;
\* the first character of a URL stands for scheme and host.
LastUrlComponent(url) ==
    LET path == Tail(WithoutQuery(url))
        runs == SlashFreeRuns(path)
        last == CHOOSE r \in runs : \A q \in runs : q[1] <= r[1]
    IN  IF runs = {} THEN <<>> ELSE SubSeq(path, last[1], last[2])

\* The file name download_file is to use when none is given.
NameOfUrl ==
    IF call.open.disp # None THEN call.open.disp ELSE LastUrlComponent(call.url)

TargetDirectory == IF call.directory = None THEN Cwd ELSE DirD

OpenedWithoutFilename ==
    call.op = "download_file" /\ call.filename = None /\ call.open.kind = "ok"

\* C19 as claimed: without a filename, the name announced by the response,
\* or else the last component of the path of the URL, is a single
\* non-empty path component, and a call that returns has saved the file
\* under that name in the target directory.
C19_UrlFilenameIsUsed ==
    OpenedWithoutFilename
    => /\ NameOfUrl # <<>>
       /\ ~HasSeparator(NameOfUrl)
       /\ call.exc = NoExc
          => /\ call.ret = TargetDirectory \o <<NameOfUrl>>
             /\ call.ret \in DOMAIN files \cup dirs

\* C19 as amended: without a filename, download_file uses the name
\* announced by the response, or else the last component of the path of
\* the URL without query string or fragment.  If that name is a single
\* non-empty path component, a call that returns returns the path of that
\* name in the target directory, which exists; a name with a directory in
\* it raises ValueError; and for a URL whose path has no last component
\* the name is empty and the target is the directory itself.
C19_UrlFilenameIsUsedWhenThereIsOne ==
    OpenedWithoutFilename
    => /\ (NameOfUrl # <<>> /\ ~HasSeparator(NameOfUrl) /\ call.exc = NoExc)
          => /\ call.ret = TargetDirectory \o <<NameOfUrl>>
             /\ call.ret \in DOMAIN files \cup dirs
       /\ HasSeveralParts(NameOfUrl) => call.exc.type = "ValueError"
       /\ NameOfUrl = <<>>
          => /\ call.target = TargetDirectory
             /\ call.ret \in {NoPath, TargetDirectory}

C19_Witness ==
    /\ OpenedWithoutFilename
    /\ call.url = XmlUrlWithQuery
    /\ call.open.disp = None
    /\ call.exc = NoExc
    /\ call.retrieved = 1
    /\ call.directory = NameD
    /\ DirD \notin call.before.dirs

\* The positions of another class that a region of class k fully encloses:
\* no walk along rows and columns that avoids class k leads from them to
\* the border of the mask.
EnclosedBy(k) ==
    LET all == Positions(result.shape[1], result.shape[2])
        region == {pos \in all : MaskAt(result, pos) = k}
        rim == {pos \in all \ region :
                   pos[1] \in {1, result.shape[1]} \/ pos[2] \in {1, result.shape[2]}}
    IN  all \ (region \cup Outside(rim, region, all))

HolesRemoved ==
    /\ seg.op = "segmentation_map_to_image"
    /\ seg.remove_holes
    /\ seg.exc = NoExc

C22_ComposedImageKeepsBothSources ==
    new_image # NoImage =>
        \A pos \in DOMAIN new_image.px :
            /\ resized_result.px[pos] = 1 => new_image.px[pos] = source_image.px[pos]
            /\ resized_result.px[pos] = 0 => new_image.px[pos] = background_image.px[pos]

WeightsComplete(before) == before = <<WeightsSize>>

\* C23: whatever the earlier runs of the download cell did, a run that
\* starts while no complete weights file is at model_path attempts the
\* download, and a run is skipped only when a completely downloaded weights
\* file exists at model_path.
C23_DownloadedUnlessComplete ==
    weights_cell.runs > 0 =>
        /\ ~WeightsComplete(weights_cell.before) => weights_cell.op # "skipped"
        /\ weights_cell.op = "skipped" =>
              /\ Locate(model_path) \in DOMAIN files
              /\ files[Locate(model_path)] = WeightsSize

\* The call got as far as comparing the target with the response.
ComparedSizes == call.op = "download_file" /\ call.target # NoPath

\* C24: download_file calls urlretrieve, which overwrites the target,
\* whenever the target does not exist or exists with a size different from
\* the Content-Length of the response (0 when the header is missing, as
\* line 141 reads it); so after a call that left a partial file, the next
\* call with the same arguments whose response reports another size than
\* the partial file's retrieves again and does not report that the file
\* exists.
C24_WrongSizeIsRetrievedAgain ==
    ComparedSizes =>
        /\ ( \/ ~Exists(call.before, call.target)
             \/ StatSize(call.before, call.target, call.dir_size) # call.urlobject_size )
           => /\ call.retrieved = 1
              /\ ~call.printed
              /\ (call.target \notin dirs /\ call.retr.kind \in {"ok", "cut"})
                    => files[call.target] = call.retr.n
        /\ ( /\ call.previous # NoCall
             /\ call.previous.exc.type = "ContentTooShortError"
             /\ call.previous.retr.n # call.urlobject_size )
           => /\ call.before.files[call.target] = call.previous.retr.n
              /\ call.retrieved = 1
              /\ ~call.printed

\* A call left a partial file, and the next call replaced it by a file of
\* the reported size.
C24_Witness ==
    /\ ComparedSizes
    /\ call.previous # NoCall
    /\ call.previous.exc.type = "ContentTooShortError"
    /\ call.previous.retr.n = 1
    /\ call.open.cl = MaxSize
    /\ call.exc = NoExc
    /\ call.retrieved = 1
    /\ files[call.target] = MaxSize

\* The last step was a report update_to(blocknum, BlockSize, size).
Reported == retrieval.state \in {"reading", "raised"}

\* After the reports of a retrieval that announced its size the count does
\* not exceed that size, and a report beyond the size left the count as it
\* was.
CountWithinTotalSize ==
    /\ (retrieval.state # "none" /\ retrieval.size # NoCL)
          => progress_callback.n <= retrieval.size
    /\ (Reported /\ retrieval.blocknum * BlockSize > retrieval.size)
          => progress_callback.n = retrieval.n_before

FileHasContentLength ==
    /\ retrieval.state = "returned"
    /\ retrieval.read >= retrieval.urlobject_size

\* C25 (as stated): after the reports of urlretrieve the count of the bar
\* does not exceed total_size, a report beyond total_size leaves the count
\* unchanged, and after a retrieval that returned and left a file of at
\* least Content-Length bytes the count equals Content-Length.
C25_CountReachesContentLength ==
    /\ CountWithinTotalSize
    /\ FileHasContentLength => progress_callback.n = retrieval.urlobject_size

\* C25 (amended): the same for a bar that is enabled (show_progress=True);
\* the count of a disabled bar (show_progress=False) stays 0.
C25_EnabledCountReachesContentLength ==
    /\ CountWithinTotalSize
    /\ (FileHasContentLength /\ ~progress_callback.disable)
          => progress_callback.n = retrieval.urlobject_size
    /\ progress_callback.disable => progress_callback.n = 0

\* A file of one byte arrived in a block of two: the report of the block
\* was beyond the size, and the count was set when urlretrieve returned.
C25_Witness ==
    /\ FileHasContentLength
    /\ ~progress_callback.disable
    /\ retrieval.size = 1
    /\ retrieval.urlobject_size = 1
    /\ retrieval.blocknum * BlockSize > retrieval.size
    /\ retrieval.n_before = 0
    /\ progress_callback.n = 1

\* C26: when download_file raises because the URL could not be opened or
\* because the filename is invalid (ValueError), the filesystem is as it
\* was before the call: no directory and no file was created, and no file
\* changed its size.
C26_FailureBeforeMkdirLeavesFilesystem ==
    ( /\ call.op = "download_file"
      /\ call.open.kind # "ok" \/ call.exc.type = "ValueError" )
    => /\ call.exc # NoExc
       /\ call.retrieved = 0
       /\ files = call.before.files
       /\ dirs = call.before.dirs

\* An invalid filename was refused while the target directory was missing.
C26_Witness ==
    /\ call.op = "download_file"
    /\ call.exc.type = "ValueError"
    /\ call.open.kind = "ok"
    /\ call.directory = NameD
    /\ DirD \notin dirs

IrModelCalled == call.op = "download_ir_model"

\* When the fetch of the xml file fails, the bin file is not requested and
\* the filesystem is as the xml fetch left it.
XmlFailureEndsTheCall ==
    (IrModelCalled /\ call.xml.exc # NoExc)
    => /\ call.bin = NotRun
       /\ call.exc = call.xml.exc
       /\ call.ret = NoPath
       /\ files = call.xml.fs.files
       /\ dirs = call.xml.fs.dirs

BinFetchFailed == IrModelCalled /\ call.xml.exc = NoExc /\ call.bin.exc # NoExc

\* C27 (as stated): the xml file is fetched first and the bin file second;
\* if the xml fetch fails the bin fetch is never attempted, and if the bin
\* fetch fails the xml file remains on disk as the xml fetch left it, while
\* the call raises and returns no path.
C27_XmlFileSurvivesBinFailure ==
    /\ XmlFailureEndsTheCall
    /\ BinFetchFailed
       => /\ call.exc = call.bin.exc
          /\ call.ret = NoPath
          /\ call.xml.ret \in DOMAIN files
          /\ files[call.xml.ret] = call.xml.fs.files[call.xml.ret]

\* C27 (amended): the same, except that the xml file is only certain to be
\* as the xml fetch left it when the bin fetch had another target; when the
\* responses announce the same filename for both, the bin retrieval writes
\* over the xml file, which still exists.
C27_XmlFileSurvivesBinFailureElsewhere ==
    /\ XmlFailureEndsTheCall
    /\ BinFetchFailed
       => /\ call.exc = call.bin.exc
          /\ call.ret = NoPath
          /\ call.xml.ret \in DOMAIN files
          /\ call.bin.target # call.xml.target
                => files[call.xml.ret] = call.xml.fs.files[call.xml.ret]

\* The xml file was retrieved, the retrieval of the bin file broke off.
C27_Witness ==
    /\ BinFetchFailed
    /\ call.xml.retrieved = 1
    /\ call.bin.retrieved = 1
    /\ call.bin.exc.type = "ContentTooShortError"
    /\ call.bin.target # call.xml.target
    /\ call.xml.ret \in DOMAIN files
    /\ call.bin.target \in DOMAIN files

\* The values of the mask that have no colormap row, or that
\* astype(np.uint8) changes.
ValuesWithoutRow ==
    {v \in {result.flat[i] : i \in DOMAIN result.flat} :
        v >= Len(colormap) \/ v % 256 # v}

\* C28: whenever the mask contains a value that has no colormap row, or a
\* value that the cast to uint8 changes, segmentation_map_to_image raises
\* ValueError and returns no image; stated for a colormap with rows and a
\* mask of shape (H,W) with H > 1 or of shape (1,H,W).
C28_ValuesWithoutRowRaiseValueError ==
    ( /\ seg.op = "segmentation_map_to_image"
      /\ colormap # <<>>
      /\ \/ Len(result.shape) = 2 /\ result.shape[1] > 1
         \/ Len(result.shape) = 3 /\ result.shape[1] = 1
      /\ ValuesWithoutRow # {} )
    => seg.exc.type = "ValueError" /\ seg.image = NoImage

====
